---- MODULE Spec2Model ----
(***************************************************************************)
(* GreenOS edge firmware: actuator interlock engine (ActuatorManager),     *)
(* the controller state machine of main.ino and the parts of the sensor    *)
(* subsystem the controller reads.                                         *)
(*                                                                         *)
(* Time is millis(): an unsigned 32-bit millisecond counter.  The horizon  *)
(* of every specification stays far below 2^32 ms (49.7 days) and no       *)
(* stored timestamp is ever ahead of the clock, so the unsigned            *)
(* differences the firmware computes never wrap inside the model.          *)
(***************************************************************************)
EXTENDS Integers, Naturals, Sequences, FiniteSets, TLC

\* ------------------------------------------------------------------------
\* Program constants
\* ------------------------------------------------------------------------
MIN_CYCLE_TIME_MS == 60000
MAX_PUMP_RUN_TIME_MS == 600000
InterlockDelayMs == 1000
MAX_SENSOR_ERRORS == 3

\* capacity of the offline buffer
MAX_BUFFERED_READINGS == 100
MQ135_PREHEAT_TIME_MS == 172800000
TEMP_MIN == 10
TEMP_MAX == 35
TEMP_OPTIMAL_MAX == 24
HUMIDITY_MIN == 40
HUMIDITY_MAX == 80
SENSOR_READ_INTERVAL == 5000
ANOMALY_CHECK_INTERVAL == 10000
FIREBASE_SYNC_INTERVAL == 60000
SENSOR_HEALTH_CHECK_INTERVAL == 30000
SAFE_MODE_TIMEOUT == 60000
WIFI_CONNECTION_TIMEOUT == 20000
MaxBootFails == 3
SetupDelayMs == 2200
SensorInitDelayMs == 2000
SensorInitRetryDelayMs == 5000
WifiPollDelayMs == 500
NormalBannerDelayMs == 2000
SafeModeBannerDelayMs == 1000
EmergencyFlashDelayMs == 2000
EmergencyHoldDelayMs == 5000
LoopDelayMs == 10
WDT_TIMEOUT_SECONDS == 8
EmergencyFlashPeriodMs == 200
CalibrationPromptPollMs == 100
CalibrationSettleMs == 1000

\* ------------------------------------------------------------------------
\* Bounds of the model
\* ------------------------------------------------------------------------
\* the clock is sampled every half dwell interval
Tick == MIN_CYCLE_TIME_MS \div 2
\* horizon (in ticks) of the actuator specification
MaxTicks == 5
\* horizon (in ticks) of the pump specification
MaxPumpTicks == 24
\* number of blocking interlock delays taken between two ticks
MaxBurst == 2
\* the controller loop is sampled once per sensor interval
CtlStep == SENSOR_READ_INTERVAL
\* the sensor specification advances time in halves of the MQ135 warm-up
SensorTick == MQ135_PREHEAT_TIME_MS \div 2
\* horizon (in ticks) of the sensor specification
MaxSensorTicks == 3
\* number of readAll() calls and of init() calls in the sensor specification
MaxReads == 5
MaxInits == 2
\* failed polls already behind the sensor manager in its long-running start
NearWrapPolls == 252
MaxLoads == 3
MaxCalibrations == 2
MaxInsertions == 103
\* horizon (in loop samples) of the controller specification
MaxCtlSteps == 7
\* horizon (in loop samples) of the long run in the cold
MaxColdSteps == 34
\* number of serial commands the operator types between two boots
MaxCommands == 1
\* number of changes of the network link between two boots
MaxLinkChanges == 1
\* horizon (in loop samples) of the run with arbitrary SCD-30 results
MaxWildSteps == 30
\* number of anomalous readings in the run on an unreliable link
MaxAnomalies == 1
\* horizon (in loop samples) of the run on an unreliable link
MaxLinkSteps == 26
\* the longest time the operator lets a calibration prompt wait
OperatorWaitMs == 10000

VARIABLES
  state,      \* ActuatorState state (tracked outputs and change timestamps)
  pins,       \* level last written to each relay pin by digitalWrite
  clock,      \* millis()
  lastCall,   \* history: the call or handler that just returned
  pre,        \* history: actuator context at the entry of that call
  ctl,        \* controller globals: currentState, timers, static flags
  sm,         \* sensor manager: snapshot and per-channel health
  an,         \* anomaly.currentAnomaly
  net,        \* WiFi.status() == WL_CONNECTED and Firebase.ready()
  em,         \* history: anomaly and bundle of the last Emergency handler
  wd,         \* software watchdog: lastWatchdogFeed, watchdogEnabled, and the
              \* longest time without a heartbeat in the last loop iteration
  hs          \* history of the SafeMode entries and SensorInit visits

vars == <<state, pins, clock, lastCall, pre, ctl, sm, an, net, em, wd, hs>>

ctlVars == <<ctl, sm, an, net, em, wd, hs>>

\* unsigned long subtraction now - then, for then <= now < 2^32
Sub32(a, b) == a - b

\* EmergencyType, in declaration order (LOW_TEMP = 0 ...)
EmergencyTypes == <<"LOW_TEMP", "HIGH_TEMP", "SECURITY_BREACH", "WATER_LEAK", "POWER_FAILURE">>

\* AnomalyType, in declaration order (NONE = 0 ...)
AnomalyTypes == <<"NONE", "TEMP_TOO_LOW", "TEMP_TOO_HIGH", "HUMIDITY_TOO_LOW",
                  "HUMIDITY_TOO_HIGH", "MOTION_OFF_HOURS", "LOUD_NOISE",
                  "RAPID_TEMP_DROP", "SENSOR_MALFUNCTION">>

\* ActuatorManager::ActuatorManager()
ActuatorInitState ==
  [heaterPrimary |-> FALSE, heaterSecondary |-> FALSE,
   fanExhaust |-> FALSE, fanCirculation |-> FALSE,
   pumpIrrigation |-> FALSE, lightGrow |-> FALSE,
   heaterOnTime |-> 0, fanOnTime |-> 0, pumpOnTime |-> 0,
   lastHeaterChange |-> 0, lastFanChange |-> 0, lastPumpChange |-> 0]

\* relay pins before any write: the outputs are not driven
PinsOff ==
  [heaterPrimary |-> FALSE, heaterSecondary |-> FALSE,
   fanExhaust |-> FALSE, fanCirculation |-> FALSE,
   pumpIrrigation |-> FALSE, lightGrow |-> FALSE]

\* An actuator context c = [s |-> tracked state, p |-> pin levels, t |-> millis()]
\* is threaded through the setters; a setter returns the context at its return.
Ctx(s, p, t) == [s |-> s, p |-> p, t |-> t]

\* the safety interlock of setHeater: a switch-on request while the exhaust
\* fan is on
HeaterInterlock_Never(c, turnOn) == FALSE

HeaterInterlock(c, turnOn) == turnOn /\ c.s.fanExhaust

\* setHeater() without the minimum cycle time
setHeater_NoDwell(c, primary, turnOn) ==
  LET now == c.t IN
  IF HeaterInterlock(c, turnOn) THEN c
  ELSE IF primary
       THEN IF c.s.heaterPrimary # turnOn
            THEN [c EXCEPT !.p.heaterPrimary = turnOn,
                           !.s.heaterPrimary = turnOn,
                           !.s.lastHeaterChange = now,
                           !.s.heaterOnTime = IF turnOn THEN now ELSE @]
            ELSE c
       ELSE IF c.s.heaterSecondary # turnOn
            THEN [c EXCEPT !.p.heaterSecondary = turnOn,
                           !.s.heaterSecondary = turnOn,
                           !.s.lastHeaterChange = now,
                           !.s.heaterOnTime = IF turnOn THEN now ELSE @]
            ELSE c

\* ActuatorManager::setHeater(primary, turnOn)
setHeater(c, primary, turnOn) ==
  LET now == c.t IN
  IF Sub32(now, c.s.lastHeaterChange) < MIN_CYCLE_TIME_MS THEN c
  ELSE IF HeaterInterlock(c, turnOn) THEN c
  ELSE IF primary
       THEN IF c.s.heaterPrimary # turnOn
            THEN [c EXCEPT !.p.heaterPrimary = turnOn,
                           !.s.heaterPrimary = turnOn,
                           !.s.lastHeaterChange = now,
                           !.s.heaterOnTime = IF turnOn THEN now ELSE @]
            ELSE c
       ELSE IF c.s.heaterSecondary # turnOn
            THEN [c EXCEPT !.p.heaterSecondary = turnOn,
                           !.s.heaterSecondary = turnOn,
                           !.s.lastHeaterChange = now,
                           !.s.heaterOnTime = IF turnOn THEN now ELSE @]
            ELSE c

\* the write-back half of setFan (the part after the interlock block)
FanWrite(c, now, exhaust, turnOn) ==
  IF exhaust
  THEN IF c.s.fanExhaust # turnOn
       THEN [c EXCEPT !.p.fanExhaust = turnOn,
                      !.s.fanExhaust = turnOn,
                      !.s.lastFanChange = now,
                      !.s.fanOnTime = IF turnOn THEN now ELSE @]
       ELSE c
  ELSE IF c.s.fanCirculation # turnOn
       THEN [c EXCEPT !.p.fanCirculation = turnOn,
                      !.s.fanCirculation = turnOn,
                      !.s.lastFanChange = now,
                      !.s.fanOnTime = IF turnOn THEN now ELSE @]
       ELSE c

\* ActuatorManager::setFan(exhaust, turnOn)
setFan(c, exhaust, turnOn) ==
  LET now == c.t IN
  IF Sub32(now, c.s.lastFanChange) < MIN_CYCLE_TIME_MS THEN c
  ELSE IF exhaust /\ turnOn /\ (c.s.heaterPrimary \/ c.s.heaterSecondary)
       THEN LET h1 == setHeater(c, TRUE, FALSE)
                h2 == setHeater(h1, FALSE, FALSE)
                d  == [h2 EXCEPT !.t = @ + InterlockDelayMs]
            IN FanWrite(d, now, exhaust, turnOn)
       ELSE FanWrite(c, now, exhaust, turnOn)

\* the run-time limit of setPump: the value of turnOn after the limit check
PumpRunLimit_NoLimit(c, turnOn) == turnOn

PumpRunLimit(c, turnOn) ==
  IF turnOn /\ c.s.pumpIrrigation
     /\ Sub32(c.t, c.s.pumpOnTime) > MAX_PUMP_RUN_TIME_MS
  THEN FALSE
  ELSE turnOn

\* ActuatorManager::setPump(turnOn)
setPump(c, turnOn) ==
  LET now == c.t IN
  IF Sub32(now, c.s.lastPumpChange) < MIN_CYCLE_TIME_MS THEN c
  ELSE LET on == PumpRunLimit(c, turnOn) IN
       IF c.s.pumpIrrigation # on
       THEN [c EXCEPT !.p.pumpIrrigation = on,
                      !.s.pumpIrrigation = on,
                      !.s.lastPumpChange = now,
                      !.s.pumpOnTime = IF on THEN now ELSE @]
       ELSE c

\* ActuatorManager::setLight(turnOn)
setLight(c, turnOn) ==
  IF c.s.lightGrow # turnOn
  THEN [c EXCEPT !.p.lightGrow = turnOn, !.s.lightGrow = turnOn]
  ELSE c

\* ActuatorManager::emergencyLowTemperature()
emergencyLowTemperature(c) ==
  setFan(setHeater(setHeater(setFan(c, TRUE, FALSE), TRUE, TRUE), FALSE, TRUE),
         FALSE, TRUE)

\* ActuatorManager::emergencyHighTemperature()
emergencyHighTemperature(c) ==
  setLight(setFan(setFan(setHeater(setHeater(c, TRUE, FALSE), FALSE, FALSE),
                         TRUE, TRUE), FALSE, TRUE), FALSE)

\* ActuatorManager::emergencySecurityBreach()   (BUZZER_PIN is not defined)
emergencySecurityBreach(c) == setLight(c, TRUE)

\* ActuatorManager::emergencyWaterLeak()
emergencyWaterLeak(c) == setPump(c, FALSE)

\* ActuatorManager::emergencyPowerFailure()
emergencyPowerFailure(c) ==
  setFan(setLight(setHeater(setHeater(c, TRUE, FALSE), FALSE, FALSE), FALSE),
         FALSE, TRUE)

\* ActuatorManager::handleEmergency(type); a value outside the enum matches
\* no case of the switch
handleEmergency(c, type) ==
  CASE type = "LOW_TEMP"        -> emergencyLowTemperature(c)
    [] type = "HIGH_TEMP"       -> emergencyHighTemperature(c)
    [] type = "SECURITY_BREACH" -> emergencySecurityBreach(c)
    [] type = "WATER_LEAK"      -> emergencyWaterLeak(c)
    [] type = "POWER_FAILURE"   -> emergencyPowerFailure(c)
    [] OTHER                    -> c

\* ActuatorManager::handleWarning(type)
handleWarning(c, type) ==
  CASE type = "TEMP_TOO_LOW"      -> setHeater(c, TRUE, TRUE)
    [] type = "TEMP_TOO_HIGH"     -> setLight(setFan(c, TRUE, TRUE), FALSE)
    [] type = "HUMIDITY_TOO_LOW"  -> setFan(c, TRUE, FALSE)
    [] type = "HUMIDITY_TOO_HIGH" -> setFan(setFan(c, TRUE, TRUE), FALSE, TRUE)
    [] OTHER                      -> c

\* ActuatorManager::stopAll()
stopAll(c) ==
  setLight(setPump(setFan(setFan(setHeater(setHeater(c, TRUE, FALSE),
                                           FALSE, FALSE),
                                 TRUE, FALSE), FALSE, FALSE), FALSE), FALSE)

\* ActuatorManager::init(): every relay pin is written LOW; the tracked
\* state is not touched
actuatorsInit(c) == [c EXCEPT !.p = PinsOff]

\* ------------------------------------------------------------------------
\* Sensor subsystem (SensorManager).  Temperatures are whole degrees C,
\* humidity whole percent, CO2 and air quality whole ppm; the soil values
\* are the raw Modbus registers (0.1 %, 0.1 C, uS/cm, 0.01 pH).
\* ------------------------------------------------------------------------
\* SensorHealth {false, 0, 0.0f, 0, 0, 0}
HealthInit ==
  [isValid |-> FALSE, lastValidRead |-> 0, lastValidValue |-> 0,
   consecutiveErrors |-> 0, totalReads |-> 0, totalErrors |-> 0]

\* SensorManager::SensorManager(): safe defaults of the snapshot; the fields
\* the constructor leaves unset are taken as zero
DataInit ==
  [airTemp |-> 20, airHumidity |-> 50, co2 |-> 400, airQualityPPM |-> 0,
   substrateTemp |-> 200, vwc |-> 300, ph |-> 650, ec |-> 1500,
   motionDetected |-> FALSE,
   scd30ErrorRate |-> <<0, 0>>, mq135ErrorRate |-> <<0, 0>>,
   modbusErrorRate |-> <<0, 0>>,
   timestamp |-> 0]

\* nominal ADC reference voltage in mV
ADC_VREF_NOMINAL == 3300

\* temperature coefficient 0.0002f in units of 1e-6 per degree C
TEMP_COEFF_DEFAULT == 200

\* every byte of a profile field in EEPROM cells that were never written
ErasedField == -1

\* uint32_t values are the sets of the bit positions that are 1
Zero32 == {}
AllOnes32 == 0..31

\* ADCCalibration: offset in mV, scale in 1/1000, vRef in mV, tempCoeff in
\* 1e-6 per degree C, followed by the checksum
Profile(offset, scale, vRef, tempCoeff, crc) ==
  [offset |-> offset, scale |-> scale, vRef |-> vRef,
   tempCoeff |-> tempCoeff, crc32 |-> crc]

\* static ADCCalibration adcCal = {...}: the values before any load
AdcCalInit == Profile(0, 1000, ADC_VREF_NOMINAL, TEMP_COEFF_DEFAULT, Zero32)

\* EEPROM cells of the profile as delivered: all bytes 0xFF
EepromErased ==
  Profile(ErasedField, ErasedField, ErasedField, ErasedField, AllOnes32)

\* the four bytes that hold one field, least significant first
FieldBytes(v) ==
  IF v = ErasedField THEN <<255, 255, 255, 255>>
  ELSE <<v % 256, (v \div 256) % 256, (v \div 65536) % 256, 0>>

\* (uint8_t*)&adcCal over sizeof(ADCCalibration) - sizeof(uint32_t) bytes
ProfileBytes(c) ==
  FieldBytes(c.offset) \o FieldBytes(c.scale) \o FieldBytes(c.vRef)
    \o FieldBytes(c.tempCoeff)

\* the bits of a byte
ByteBits(b) == {i \in 0..7 : (b \div (2 ^ i)) % 2 = 1}

\* the polynomial 0xEDB88320
CrcPolynomial == {5, 8, 9, 15, 19, 20, 21, 23, 24, 26, 27, 29, 30, 31}

Xor32(a, b) == (a \ b) \cup (b \ a)

ShiftRight1(a) == {i - 1 : i \in a \ {0}}

\* crc = (crc >> 1) ^ (0xEDB88320 & -(crc & 1)), j times
RECURSIVE CrcShift(_, _)
CrcShift(crc, j) ==
  IF j = 0 THEN crc
  ELSE LET next == IF 0 \in crc
                   THEN Xor32(ShiftRight1(crc), CrcPolynomial)
                   ELSE ShiftRight1(crc)
       IN IF next = next THEN CrcShift(next, j - 1) ELSE crc

\* the loop over the bytes from index i on
RECURSIVE CrcBytes(_, _, _)
CrcBytes(crc, bytes, i) ==
  IF i > Len(bytes) THEN crc
  ELSE LET next == CrcShift(Xor32(crc, ByteBits(bytes[i])), 8)
       IN IF next = next THEN CrcBytes(next, bytes, i + 1) ELSE crc

\* SensorManager::calculateCRC32()
calculateCRC32(bytes) == AllOnes32 \ CrcBytes(AllOnes32, bytes, 1)

\* the profile with its checksum field recomputed
Sealed(c) == [c EXCEPT !.crc32 = calculateCRC32(ProfileBytes(c))]

\* what the operator's bench delivers during a calibration: zero point,
\* reference voltage and its measurement in mV
BenchZeroMv == 50
BenchRefMv == 2500
BenchMeasuredMv == 2050

\* the profile a calibration on that bench leaves in the EEPROM
EepromCalibrated ==
  Sealed(Profile(BenchZeroMv,
                 (BenchRefMv * 1000) \div (BenchMeasuredMv - BenchZeroMv),
                 ADC_VREF_NOMINAL, TEMP_COEFF_DEFAULT, Zero32))

\* nvm tells the build: TRUE with the EEPROM library, FALSE with the
\* RAM-only storage of the UNO Q build.  eeprom is the persisted profile,
\* calStep the position inside performADCCalibration (0 outside of it).
\* The device has been calibrated on the bench before
SensorsInitState ==
  [data |-> DataInit,
   scd30Health |-> HealthInit, mq135Health |-> HealthInit,
   modbusHealth |-> HealthInit,
   mq135_preheated |-> FALSE, mq135_startTime |-> 0,
   adcCal |-> AdcCalInit, eeprom |-> EepromCalibrated, nvm |-> TRUE,
   calWarning |-> FALSE, calStep |-> 0]

\* uint8_t increment of consecutiveErrors
Inc8(n) == (n + 1) % 256

\* what one poll of the hardware delivers
\*   scd:  "fail" (not ready / read error) or [co2, temp, hum]
\*   mq:   "fail" (voltage out of 0.1..4.9 V) or the computed ppm
\*   mb:   "fail" (Modbus error) or [moisture, soilTemp, ec, ph] registers
\*   pir:  level of the PIR pin
ScdFail == [ok |-> FALSE, co2 |-> 0, temp |-> 0, hum |-> 0]
ScdOk(co2, temp, hum) == [ok |-> TRUE, co2 |-> co2, temp |-> temp, hum |-> hum]
MbFail == [ok |-> FALSE, moisture |-> 0, soilTemp |-> 0, ec |-> 0, ph |-> 0]
MbOk(m, t, ec, ph) == [ok |-> TRUE, moisture |-> m, soilTemp |-> t, ec |-> ec, ph |-> ph]
MqFail == [ok |-> FALSE, ppm |-> 0]
MqOk(ppm) == [ok |-> TRUE, ppm |-> ppm]

\* the sanity checks of the three read functions: the read succeeded and
\* every value is in range
ScdAccepted(scd) ==
  /\ scd.ok
  /\ scd.co2 >= 300 /\ scd.co2 <= 5000
  /\ scd.temp >= -10 /\ scd.temp <= 50
  /\ scd.hum >= 0 /\ scd.hum <= 100

MqAccepted(mq) == mq.ok /\ mq.ppm >= 10 /\ mq.ppm <= 2000

MbAccepted(mb) ==
  /\ mb.ok
  /\ mb.moisture >= 0 /\ mb.moisture <= 1000
  /\ mb.soilTemp >= -100 /\ mb.soilTemp <= 600
  /\ mb.ec >= 0 /\ mb.ec <= 10000
  /\ mb.ph >= 300 /\ mb.ph <= 1000

\* SensorManager::loadADCCalibration() without the checksum test
loadADCCalibration_Unchecked(m) ==
  [m EXCEPT !.adcCal = m.eeprom, !.calWarning = FALSE]

\* SensorManager::loadADCCalibration(): EEPROM.get, then the checksum test;
\* calWarning tells which of the two messages was printed.  The RAM-only
\* build has nothing to read and always takes the defaults
loadADCCalibration(m) ==
  IF m.nvm
  THEN LET got == m.eeprom IN
       IF got.crc32 # calculateCRC32(ProfileBytes(got))
       THEN [m EXCEPT !.adcCal = [got EXCEPT !.offset = 0,
                                             !.scale = 1000,
                                             !.vRef = ADC_VREF_NOMINAL,
                                             !.tempCoeff = TEMP_COEFF_DEFAULT],
                      !.calWarning = TRUE]
       ELSE [m EXCEPT !.adcCal = got, !.calWarning = FALSE]
  ELSE [m EXCEPT !.adcCal = [@ EXCEPT !.offset = 0,
                                      !.scale = 1000,
                                      !.vRef = ADC_VREF_NOMINAL,
                                      !.tempCoeff = TEMP_COEFF_DEFAULT,
                                      !.crc32 = Zero32],
                 !.calWarning = TRUE]

\* SensorManager::saveADCCalibration(): the checksum is stored in adcCal and
\* EEPROM.put writes the whole profile; the RAM-only build writes nothing
saveADCCalibration(m) ==
  LET c == Sealed(m.adcCal) IN
  [m EXCEPT !.adcCal = c, !.eeprom = IF m.nvm THEN c ELSE @]

\* step 1 followed by a save
calibrateZeroPoint_Saving(m, zeroMv) ==
  saveADCCalibration([m EXCEPT !.adcCal.offset = zeroMv, !.calStep = 1])

\* performADCCalibration(), step 1: the zero point measured as zeroMv
calibrateZeroPoint(m, zeroMv) ==
  [m EXCEPT !.adcCal.offset = zeroMv, !.calStep = 1]

\* performADCCalibration(), step 2: the operator's reference voltage refMv
\* measured as measuredMv
calibrateReferencePoint(m, refMv, measuredMv) ==
  [m EXCEPT !.adcCal.scale = (refMv * 1000) \div (measuredMv - m.adcCal.offset),
            !.calStep = 2]

\* performADCCalibration(), end: vRef is set and the profile saved
calibrateFinish(m) ==
  saveADCCalibration([m EXCEPT !.adcCal.vRef = ADC_VREF_NOMINAL,
                               !.calStep = 0])

\* SensorManager::init() given the result of scd30.begin()
sensorsInit(m, now, scdBegin) ==
  [loadADCCalibration(m) EXCEPT !.scd30Health.isValid = scdBegin,
                                !.mq135_startTime = now]

\* readSCD30() without the sanity checks
readSCD30_Unchecked(m, now, scd) ==
  LET m1 == [m EXCEPT !.scd30Health.totalReads = @ + 1] IN
  IF ~m1.scd30Health.isValid THEN m1
  ELSE IF scd.ok
       THEN [m1 EXCEPT !.data.co2 = scd.co2,
                       !.data.airTemp = scd.temp,
                       !.data.airHumidity = scd.hum,
                       !.scd30Health.lastValidRead = now,
                       !.scd30Health.lastValidValue = scd.co2,
                       !.scd30Health.consecutiveErrors = 0]
       ELSE LET e == Inc8(m1.scd30Health.consecutiveErrors) IN
            [m1 EXCEPT !.scd30Health.consecutiveErrors = e,
                       !.scd30Health.totalErrors = @ + 1,
                       !.scd30Health.isValid =
                          IF e > MAX_SENSOR_ERRORS THEN FALSE ELSE @,
                       !.data.co2 = m1.scd30Health.lastValidValue]

\* SensorManager::readSCD30()
readSCD30(m, now, scd) ==
  LET m1 == [m EXCEPT !.scd30Health.totalReads = @ + 1] IN
  IF ~m1.scd30Health.isValid THEN m1
  ELSE IF ScdAccepted(scd)
       THEN [m1 EXCEPT !.data.co2 = scd.co2,
                       !.data.airTemp = scd.temp,
                       !.data.airHumidity = scd.hum,
                       !.scd30Health.lastValidRead = now,
                       !.scd30Health.lastValidValue = scd.co2,
                       !.scd30Health.consecutiveErrors = 0]
       ELSE LET e == Inc8(m1.scd30Health.consecutiveErrors) IN
            [m1 EXCEPT !.scd30Health.consecutiveErrors = e,
                       !.scd30Health.totalErrors = @ + 1,
                       !.scd30Health.isValid =
                          IF e > MAX_SENSOR_ERRORS THEN FALSE ELSE @,
                       !.data.co2 = m1.scd30Health.lastValidValue]

\* SensorManager::readMQ135()
readMQ135(m, now, mq) ==
  LET m1 == [m EXCEPT !.mq135Health.totalReads = @ + 1]
      heated == m1.mq135_preheated
                \/ Sub32(now, m1.mq135_startTime) >= MQ135_PREHEAT_TIME_MS
      m2 == [m1 EXCEPT !.mq135_preheated = heated]
  IN
  IF ~heated THEN m1
  ELSE IF MqAccepted(mq)
       THEN [m2 EXCEPT !.data.airQualityPPM = mq.ppm,
                       !.mq135Health.lastValidValue = mq.ppm,
                       !.mq135Health.lastValidRead = now,
                       !.mq135Health.consecutiveErrors = 0]
       ELSE LET e == Inc8(m2.mq135Health.consecutiveErrors) IN
            [m2 EXCEPT !.mq135Health.consecutiveErrors = e,
                       !.mq135Health.totalErrors = @ + 1,
                       !.mq135Health.isValid =
                          IF e > MAX_SENSOR_ERRORS THEN FALSE ELSE @,
                       !.data.airQualityPPM = m2.mq135Health.lastValidValue]

\* SensorManager::readModbusSensor()
readModbusSensor(m, now, mb) ==
  LET m1 == [m EXCEPT !.modbusHealth.totalReads = @ + 1] IN
  IF MbAccepted(mb)
  THEN [m1 EXCEPT !.data.vwc = mb.moisture,
                  !.data.substrateTemp = mb.soilTemp,
                  !.data.ec = mb.ec,
                  !.data.ph = mb.ph,
                  !.modbusHealth.lastValidRead = now,
                  !.modbusHealth.lastValidValue = mb.ec,
                  !.modbusHealth.consecutiveErrors = 0,
                  !.modbusHealth.isValid = TRUE]
  ELSE LET e == Inc8(m1.modbusHealth.consecutiveErrors) IN
       [m1 EXCEPT !.modbusHealth.consecutiveErrors = e,
                  !.modbusHealth.totalErrors = @ + 1,
                  !.modbusHealth.isValid =
                     IF e > MAX_SENSOR_ERRORS THEN FALSE ELSE @]

\* SensorManager::updateHealthStatistics(): each error rate is kept as the
\* pair <<totalErrors, totalReads>> it is the quotient of
updateHealthStatistics(m) ==
  [m EXCEPT !.data.scd30ErrorRate =
               <<m.scd30Health.totalErrors, m.scd30Health.totalReads>>,
            !.data.mq135ErrorRate =
               <<m.mq135Health.totalErrors, m.mq135Health.totalReads>>,
            !.data.modbusErrorRate =
               <<m.modbusHealth.totalErrors, m.modbusHealth.totalReads>>]

\* SensorManager::readAll()
readAll(m, now, poll) ==
  LET m0 == [m EXCEPT !.data.timestamp = now]
      m1 == readSCD30(m0, now, poll.scd)
      m2 == readMQ135(m1, now, poll.mq)
      m3 == readModbusSensor(m2, now, poll.mb)
      m4 == [m3 EXCEPT !.data.motionDetected = poll.pir]
  IN updateHealthStatistics(m4)

\* a poll at which every channel fails
NoPoll == [scd |-> ScdFail, mq |-> MqFail, mb |-> MbFail, pir |-> FALSE]

\* n successive readAll() calls at time now with every channel failing
RECURSIVE FailedPolls(_, _, _)
FailedPolls(m, now, n) ==
  IF n = 0 THEN m
  ELSE IF n = 1 THEN readAll(m, now, NoPoll)
  ELSE LET half == FailedPolls(m, now, n \div 2)
       IN \* the state half-way is computed before the rest is applied
          IF half = half THEN FailedPolls(half, now, n - n \div 2) ELSE m

\* rate > pct percent, for a rate kept as <<errors, reads>>
RateAbove(rate, pct) == rate[2] > 0 /\ rate[1] * 100 > pct * rate[2]

\* ------------------------------------------------------------------------
\* Anomaly classifier (AnomalyDetection)
\* ------------------------------------------------------------------------
\* AnomalyDetection::detectAnomalies(data): the anomaly type it leaves in
\* currentAnomaly.  Temperature extremes rank highest, then off-hours
\* motion, then humidity extremes, then the remaining conditions; low is the
\* highest-ranking condition present among off-hours motion, noise, rapid
\* change and sensor malfunction ("NONE" when there is none).
detectAnomalies(data, low) ==
  IF data.airTemp < TEMP_MIN THEN "TEMP_TOO_LOW"
  ELSE IF data.airTemp > TEMP_MAX THEN "TEMP_TOO_HIGH"
  ELSE IF low = "MOTION_OFF_HOURS" THEN low
  ELSE IF data.airHumidity < HUMIDITY_MIN THEN "HUMIDITY_TOO_LOW"
  ELSE IF data.airHumidity > HUMIDITY_MAX THEN "HUMIDITY_TOO_HIGH"
  ELSE low

\* ------------------------------------------------------------------------
\* State controller (main.ino).  The controller operators act on a world
\*   w = [a: actuator context (with the clock), ctl: controller globals,
\*        sm: sensor manager, an: anomaly.currentAnomaly,
\*        net: [wifi, ready], em: history of the last emergency bundle]
\* ------------------------------------------------------------------------
CtlInitState ==
  [currentState |-> "STATE_BOOT", previousState |-> "STATE_BOOT",
   stateEntryTime |-> 0, bootFailCount |-> 0,
   lastSensorRead |-> 0, lastFirebaseSync |-> 0, lastAnomalyCheck |-> 0,
   lastHealthCheck |-> 0,
   normalFirstRun |-> TRUE, safeFirstRun |-> TRUE]

\* the network flags, and the offline buffer: offlineBuffer holds the first
\* bufferCount slots of the array; setup() leaves sdCardAvailable false;
\* sdFile holds the lines of /data/buffer.csv
NetInit ==
  [wifi |-> FALSE, ready |-> FALSE,
   sdCardAvailable |-> FALSE, offlineBuffer |-> <<>>, sdFile |-> <<>>]

\* struct SensorReading filled from a snapshot
SensorReading(data) ==
  [timestamp |-> data.timestamp, airTemp |-> data.airTemp,
   airHumidity |-> data.airHumidity, co2 |-> data.co2,
   ph |-> data.ph, ec |-> data.ec, vwc |-> data.vwc]

\* bufferSensorData() without the shift of a full buffer
bufferSensorData_KeepOldest(n, data) ==
  IF Len(n.offlineBuffer) < MAX_BUFFERED_READINGS
  THEN [n EXCEPT !.offlineBuffer = Append(@, SensorReading(data))]
  ELSE n

\* bufferSensorData(data)
bufferSensorData(n, data) ==
  LET shifted == IF ~n.sdCardAvailable
                    /\ Len(n.offlineBuffer) >= MAX_BUFFERED_READINGS
                 THEN SubSeq(n.offlineBuffer, 2, MAX_BUFFERED_READINGS)
                 ELSE n.offlineBuffer
  IN IF Len(shifted) < MAX_BUFFERED_READINGS
     THEN [n EXCEPT !.offlineBuffer = Append(shifted, SensorReading(data))]
     ELSE [n EXCEPT !.offlineBuffer = shifted]

\* flushSDBuffer() given whether SD.open succeeds
flushSDBuffer(n, opened) ==
  IF ~n.sdCardAvailable \/ Len(n.offlineBuffer) = 0 THEN n
  ELSE IF opened
       THEN [n EXCEPT !.sdFile = @ \o n.offlineBuffer, !.offlineBuffer = <<>>]
  ELSE n

NoEmergency == [anomaly |-> "NONE", bundle |-> "-", next |-> "-"]

\* position of an anomaly type in enum AnomalyType (NONE = 0)
AnomalyOrdinal(type) ==
  (CHOOSE i \in 1..Len(AnomalyTypes) : AnomalyTypes[i] = type) - 1

\* (EmergencyType)type: the enumerator with the same integer value, or a
\* value outside the enum
CastToEmergencyType(type) ==
  LET n == AnomalyOrdinal(type) IN
  IF n + 1 <= Len(EmergencyTypes) THEN EmergencyTypes[n + 1] ELSE "OUT_OF_ENUM"

\* delay(ms)
delay(w, ms) == [w EXCEPT !.a.t = @ + ms]

\* history: entryPending is set when SafeMode is entered and cleared by the
\* first stateSafeMode() that follows; entries counts the entries handled
\* (up to 2), stopAllRan tells whether the last one began with stopAll();
\* commands counts the serial commands read since the boot.  For the calls
\* of the sensor manager: poll and smPre are the input and the state before
\* the last call, inits / reads / cals count the calls of init(), readAll()
\* and performADCCalibration(), saved holds the profile of the last
\* saveADCCalibration() (empty before the first one); inserted lists the
\* records handed to bufferSensorData() since the boot.  delivered and failed
\* hold the timestamps of the snapshots whose publication the cloud has
\* confirmed and of those whose publication failed; linkChanges counts the
\* changes of the network link and anomalies the anomalous readings
\* delivered by the sensors
HsInit ==
  [entryPending |-> FALSE, entries |-> 0, stopAllRan |-> FALSE, commands |-> 0,
   poll |-> NoPoll, smPre |-> SensorsInitState, inits |-> 0, reads |-> 0,
   cals |-> 0, saved |-> <<>>, inserted |-> <<>>,
   delivered |-> {}, failed |-> {}, linkChanges |-> 0,
   order |-> <<>>, anomalies |-> 0]

\* hs.order lists, in the order of their execution, the steps taken by the
\* last run of stateNormalOperation() or stateEmergency()
Did(w, step) == [w EXCEPT !.hs.order = Append(@, step)]

\* changeState(newState)
changeState(w, newState) ==
  [w EXCEPT !.ctl.previousState = w.ctl.currentState,
            !.ctl.currentState = newState,
            !.ctl.stateEntryTime = w.a.t,
            !.hs.entryPending = IF newState = "STATE_SAFE_MODE" THEN TRUE ELSE @]

\* firebase.isConnected()
isConnected(w) == w.net.wifi /\ w.net.ready

\* lastWatchdogFeed = 0, watchdogEnabled = false; maxGap is the history of
\* the longest interval between two heartbeats
WdInit == [lastWatchdogFeed |-> 0, watchdogEnabled |-> FALSE, maxGap |-> 0]

Max(a, b) == IF a >= b THEN a ELSE b

\* setupWatchdog(), with WDT_ENABLED set
setupWatchdog(w) ==
  [w EXCEPT !.wd.lastWatchdogFeed = w.a.t, !.wd.watchdogEnabled = TRUE]

\* feedWatchdog()
feedWatchdog(w) ==
  IF w.wd.watchdogEnabled
  THEN [w EXCEPT !.wd.lastWatchdogFeed = w.a.t,
                 !.wd.maxGap = Max(@, Sub32(w.a.t, w.wd.lastWatchdogFeed))]
  ELSE w

\* the condition under which checkWatchdog() resets the board
WatchdogExpired(w) ==
  /\ w.wd.watchdogEnabled
  /\ Sub32(w.a.t, w.wd.lastWatchdogFeed) > WDT_TIMEOUT_SECONDS * 1000

\* a wait of total ms made of delay(period); feedWatchdog() rounds: after
\* the first round every heartbeat comes one period after the one before
FedWait(w, total, period) ==
  LET first == feedWatchdog(delay(w, period))
      rest  == delay(first, total - period)
  IN IF rest.wd.watchdogEnabled
     THEN [rest EXCEPT !.wd.lastWatchdogFeed = rest.a.t]
     ELSE rest

\* setup()
setup(w) ==
  changeState(setupWatchdog(delay(w, SetupDelayMs)), "STATE_SENSOR_INIT")

\* stateSensorInit()
stateSensorInit(w, scdBegin, poll) ==
  LET w1 == [w EXCEPT !.sm = sensorsInit(@, w.a.t, scdBegin),
                      !.a = actuatorsInit(@)]
      w2 == delay(w1, SensorInitDelayMs)
      w3 == [w2 EXCEPT !.sm = readAll(@, w2.a.t, poll)]
  IN
  IF w3.sm.data.airTemp > -50 /\ w3.sm.data.airTemp < 60
  THEN changeState(w3, "STATE_NETWORK_CONNECT")
  ELSE LET n  == Inc8(w3.ctl.bootFailCount)
           w4 == [w3 EXCEPT !.ctl.bootFailCount = n]
       IN IF n > MaxBootFails
          THEN changeState(w4, "STATE_SAFE_MODE")
          ELSE delay(w4, SensorInitRetryDelayMs)

\* the timeout branch of stateNetworkConnect()
networkTimeoutExit_Halt(w) == w

networkTimeoutExit(w) == changeState(w, "STATE_NORMAL_OPERATION")

\* stateNetworkConnect(): connects tells whether WiFi.status() becomes
\* WL_CONNECTED before the timeout
stateNetworkConnect(w, connects) ==
  IF connects
  THEN changeState([w EXCEPT !.net.wifi = TRUE], "STATE_FIREBASE_AUTH")
  ELSE networkTimeoutExit(
         FedWait([w EXCEPT !.net.wifi = FALSE],
                 WIFI_CONNECTION_TIMEOUT + WifiPollDelayMs, WifiPollDelayMs))

\* syncBufferedData() that empties the offline buffer
syncBufferedData_Drop(w) == [w EXCEPT !.net.offlineBuffer = <<>>]

\* syncBufferedData(): without the SD card it returns at once; with it the
\* lines of the buffer file are read, none is sent, and the file is removed
syncBufferedData(w) ==
  IF ~w.net.sdCardAvailable THEN w
  ELSE [w EXCEPT !.net.sdFile = <<>>]

\* FirebaseComm::syncSensorData(data): pub tells whether RTDB.setJSON
\* succeeds
syncSensorData(w, data, pub) ==
  IF ~isConnected(w) THEN w
  ELSE IF pub THEN [w EXCEPT !.hs.delivered = @ \cup {data.timestamp}]
  ELSE [w EXCEPT !.hs.failed = @ \cup {data.timestamp}]

\* FirebaseComm::sendAlert(details): nothing is attempted without the
\* connection
sendAlert(w) == IF isConnected(w) THEN Did(w, "alert") ELSE w

\* stateFirebaseAuth() that goes back to the network connection when the
\* sign-in fails
stateFirebaseAuth_Reconnect(w, ready) ==
  LET w1 == [w EXCEPT !.net.ready = ready] IN
  IF isConnected(w1)
  THEN changeState(syncBufferedData(w1), "STATE_NORMAL_OPERATION")
  ELSE changeState(w1, "STATE_NETWORK_CONNECT")

\* stateFirebaseAuth(): ready tells whether firebase.init() ends with the
\* session ready
stateFirebaseAuth(w, ready) ==
  LET w1 == [w EXCEPT !.net.ready = ready] IN
  IF isConnected(w1)
  THEN changeState(syncBufferedData(w1), "STATE_NORMAL_OPERATION")
  ELSE changeState(w1, "STATE_NORMAL_OPERATION")

\* checkSensorHealth() without the error-rate test
checkSensorHealth_AnyFailure(w) ==
  IF ~w.sm.scd30Health.isValid
  THEN changeState(w, "STATE_SAFE_MODE")
  ELSE w

\* checkSensorHealth(): the Modbus and MQ135 branches only print
checkSensorHealth(w) ==
  IF ~w.sm.scd30Health.isValid /\ RateAbove(w.sm.data.scd30ErrorRate, 50)
  THEN changeState(w, "STATE_SAFE_MODE")
  ELSE w

\* the four periodic blocks of stateNormalOperation(), in program order;
\* each takes the world left by the one before it
NormalRead(w, cm, poll) ==
  IF Sub32(cm, w.ctl.lastSensorRead) >= SENSOR_READ_INTERVAL
  THEN LET r == Did([w EXCEPT !.ctl.lastSensorRead = cm,
                              !.sm = readAll(@, w.a.t, poll)], "read")
       IN IF ~r.net.wifi \/ ~isConnected(r)
          THEN [r EXCEPT !.net = bufferSensorData(@, r.sm.data)]
          ELSE r
  ELSE w

NormalHealth(w, cm) ==
  IF Sub32(cm, w.ctl.lastHealthCheck) >= SENSOR_HEALTH_CHECK_INTERVAL
  THEN checkSensorHealth([w EXCEPT !.ctl.lastHealthCheck = cm])
  ELSE w

\* the periodic flush runs only with the SD card
NormalFlush(w, cm) ==
  IF w.net.sdCardAvailable
  THEN NormalHealth([w EXCEPT !.net = flushSDBuffer(@, TRUE)], cm)
  ELSE NormalHealth(w, cm)

NormalSync(w, cm, pub) ==
  IF Sub32(cm, w.ctl.lastFirebaseSync) >= FIREBASE_SYNC_INTERVAL
  THEN LET w1 == [w EXCEPT !.ctl.lastFirebaseSync = cm] IN
       IF w1.net.wifi
       THEN IF isConnected(w1)
            THEN NormalFlush(syncSensorData(Did(w1, "publish"),
                                            w1.sm.data, pub), cm)
            ELSE changeState(w1, "STATE_FIREBASE_AUTH")
       ELSE NormalFlush(w1, cm)
  ELSE NormalFlush(w, cm)

NormalAnomaly(w, cm, low, pub) ==
  IF Sub32(cm, w.ctl.lastAnomalyCheck) >= ANOMALY_CHECK_INTERVAL
  THEN LET type == detectAnomalies(w.sm.data, low)
           w1   == Did([w EXCEPT !.ctl.lastAnomalyCheck = cm, !.an = type],
                       "evaluate")
       IN
       IF type = "TEMP_TOO_LOW" \/ type = "TEMP_TOO_HIGH"
       THEN changeState(w1, "STATE_EMERGENCY")
       ELSE IF type # "NONE"
            THEN NormalSync(
                   sendAlert(Did([w1 EXCEPT !.a = handleWarning(@, type)],
                                 "command")), cm, pub)
            ELSE NormalSync(w1, cm, pub)
  ELSE NormalSync(w, cm, pub)

\* stateNormalOperation()
stateNormalOperation(w, poll, low, pub) ==
  LET w1 == IF w.ctl.normalFirstRun
            THEN [delay(w, NormalBannerDelayMs) EXCEPT !.ctl.normalFirstRun = FALSE]
            ELSE w
      cm == w1.a.t
      w2 == [w1 EXCEPT !.hs.order = <<>>]
  IN NormalAnomaly(NormalRead(w2, cm, poll), cm, low, pub)

\* the firstRun block of stateSafeMode() (firstRun is a static local)
safeModeFirstRun(w) ==
  IF w.ctl.safeFirstRun
  THEN LET s1 == [w EXCEPT !.a = stopAll(@)]
           s2 == IF s1.sm.data.airTemp < TEMP_MIN
                 THEN [s1 EXCEPT !.a = setHeater(@, TRUE, TRUE)]
                 ELSE s1
       IN [delay(s2, SafeModeBannerDelayMs) EXCEPT !.ctl.safeFirstRun = FALSE]
  ELSE w

\* the periodic read and temperature protection of stateSafeMode()
safeModeProtect(w, cm, poll) ==
  IF Sub32(cm, w.ctl.lastSensorRead) >= SENSOR_READ_INTERVAL * 2
  THEN LET r == [w EXCEPT !.ctl.lastSensorRead = cm,
                          !.sm = readAll(@, cm, poll)]
       IN IF r.sm.data.airTemp < TEMP_MIN
          THEN [r EXCEPT !.a = setHeater(@, TRUE, TRUE)]
          ELSE IF r.sm.data.airTemp > TEMP_OPTIMAL_MAX
               THEN [r EXCEPT !.a = setHeater(setHeater(@, TRUE, FALSE),
                                              FALSE, FALSE)]
               ELSE r
  ELSE w

\* the recovery attempt that ends stateSafeMode()
safeModeRecover_Never(w, cm) == w

safeModeRecover(w, cm) ==
  IF Sub32(cm, w.ctl.stateEntryTime) > SAFE_MODE_TIMEOUT
  THEN changeState(w, "STATE_SENSOR_INIT")
  ELSE w

\* stateSafeMode(); the first call after an entry into SafeMode records in
\* hs whether it runs the firstRun block
stateSafeMode(w, poll) ==
  LET w0 == IF w.hs.entryPending
            THEN [w EXCEPT !.hs.entryPending = FALSE,
                           !.hs.entries = IF @ < 2 THEN @ + 1 ELSE 2,
                           !.hs.stopAllRan = w.ctl.safeFirstRun]
            ELSE w
      w1 == safeModeFirstRun(w0)
      cm == w1.a.t
  IN safeModeRecover(safeModeProtect(w1, cm, poll), cm)

\* the last statement of stateEmergency()
emergencyExit_Stay(w) == w

emergencyExit(w) == changeState(w, "STATE_NORMAL_OPERATION")

\* stateEmergency() that sends the alert before it acts
\* stateEmergency(); em keeps the anomaly handled, the bundle executed and
\* the controller state at the return of the handler
stateEmergency_AlertFirst(w) ==
  LET type == w.an
      kind == CastToEmergencyType(type)
      w0 == sendAlert([w EXCEPT !.hs.order = <<>>])
      w1 == Did([w0 EXCEPT !.a = handleEmergency(@, kind)], "command")
      w2 == delay(FedWait(w1, EmergencyFlashDelayMs, EmergencyFlashPeriodMs),
                  EmergencyHoldDelayMs)
      w3 == emergencyExit(w2)
  IN [w3 EXCEPT !.em = [anomaly |-> type, bundle |-> kind,
                        next |-> w3.ctl.currentState]]

stateEmergency(w) ==
  LET type == w.an
      kind == CastToEmergencyType(type)
      w0 == [w EXCEPT !.hs.order = <<>>]
      w1 == sendAlert(Did([w0 EXCEPT !.a = handleEmergency(@, kind)],
                          "command"))
      w2 == delay(FedWait(w1, EmergencyFlashDelayMs, EmergencyFlashPeriodMs),
                  EmergencyHoldDelayMs)
      w3 == emergencyExit(w2)
  IN [w3 EXCEPT !.em = [anomaly |-> type, bundle |-> kind,
                        next |-> w3.ctl.currentState]]

\* SensorManager::performADCCalibration(): two prompts that busy-wait for
\* the operator, each followed by delay(1000) and the sampling
performADCCalibration(w, wait) ==
  LET w1 == delay(w, wait + CalibrationSettleMs + wait + CalibrationSettleMs)
  IN [w1 EXCEPT !.sm = calibrateFinish(
                         calibrateReferencePoint(
                           calibrateZeroPoint(@, BenchZeroMv),
                           BenchRefMv, BenchMeasuredMv))]

\* SensorManager::calibrateMQ135(): one prompt that busy-waits
calibrateMQ135(w, wait) == delay(w, wait)

\* case 3 of stateCalibrationMode(): the exit option
calibrationExit_Stay(w) == w

calibrationExit(w) == changeState(w, "STATE_NORMAL_OPERATION")

\* stateCalibrationMode(): the menu prompt is polled with the watchdog fed,
\* then the option read is executed
stateCalibrationMode(w, option, wait) ==
  LET w1 == delay(feedWatchdog(w), CalibrationPromptPollMs) IN
  CASE option = 1 -> performADCCalibration(w1, wait)
    [] option = 2 -> calibrateMQ135(w1, wait)
    [] option = 3 -> calibrationExit(w1)
    [] OTHER      -> w1

\* ------------------------------------------------------------------------
\* The public interface of ActuatorManager driven at arbitrary times
\* ------------------------------------------------------------------------
\* a call record: the operation, its enum argument ("-" when it has none),
\* its output selector (primary / exhaust) and its on/off argument
Call(op, kind, sel, on) == [op |-> op, kind |-> kind, sel |-> sel, on |-> on]
NoCall == Call("none", "-", FALSE, FALSE)

Cur == Ctx(state, pins, clock)

\* a call is issued at the current clock; it returns the context r
Returns(r, call) ==
  /\ state' = r.s
  /\ pins' = r.p
  /\ clock' = r.t
  /\ lastCall' = call
  /\ pre' = Cur
  /\ UNCHANGED ctlVars

BurstOK == clock % Tick < MaxBurst * InterlockDelayMs

Init ==
  /\ state = ActuatorInitState
  /\ pins = PinsOff
  /\ clock = 0
  /\ lastCall = NoCall
  /\ pre = Ctx(ActuatorInitState, PinsOff, 0)
  /\ ctl = CtlInitState
  /\ sm = SensorsInitState
  /\ an = "NONE"
  /\ net = NetInit
  /\ em = NoEmergency
  /\ wd = WdInit
  /\ hs = HsInit

CallSetHeater ==
  \E primary \in BOOLEAN, turnOn \in BOOLEAN :
    /\ BurstOK
    /\ Returns(setHeater(Cur, primary, turnOn), Call("setHeater", "-", primary, turnOn))

CallSetFan ==
  \E exhaust \in BOOLEAN, turnOn \in BOOLEAN :
    /\ BurstOK
    /\ Returns(setFan(Cur, exhaust, turnOn), Call("setFan", "-", exhaust, turnOn))

CallSetPump ==
  \E turnOn \in BOOLEAN :
    /\ BurstOK
    /\ Returns(setPump(Cur, turnOn), Call("setPump", "-", FALSE, turnOn))

CallSetLight ==
  \E turnOn \in BOOLEAN :
    /\ BurstOK
    /\ Returns(setLight(Cur, turnOn), Call("setLight", "-", FALSE, turnOn))

CallHandleEmergency ==
  \E i \in 1..Len(EmergencyTypes) :
    /\ BurstOK
    /\ Returns(handleEmergency(Cur, EmergencyTypes[i]),
               Call("handleEmergency", EmergencyTypes[i], FALSE, FALSE))

CallHandleWarning ==
  \E i \in 1..Len(AnomalyTypes) :
    /\ BurstOK
    /\ Returns(handleWarning(Cur, AnomalyTypes[i]),
               Call("handleWarning", AnomalyTypes[i], FALSE, FALSE))

CallStopAll ==
  /\ BurstOK
  /\ Returns(stopAll(Cur), Call("stopAll", "-", FALSE, FALSE))

\* time passes until the next sampling instant, no call is made
Advance(maxTicks) ==
  /\ (clock \div Tick) + 1 <= maxTicks
  /\ clock' = ((clock \div Tick) + 1) * Tick
  /\ lastCall' = NoCall
  /\ pre' = Cur
  /\ UNCHANGED <<state, pins>>
  /\ UNCHANGED ctlVars

TickAct ==
  /\ clock < MaxTicks * Tick
  /\ Advance(MaxTicks)

NextAct ==
  \/ CallSetHeater
  \/ CallSetFan
  \/ CallSetPump
  \/ CallSetLight
  \/ CallHandleEmergency
  \/ CallHandleWarning
  \/ CallStopAll
  \/ TickAct

SpecAct == Init /\ [][NextAct]_vars

\* the pump calls alone, over a horizon longer than the maximum run time
TickPump ==
  /\ clock < MaxPumpTicks * Tick
  /\ Advance(MaxPumpTicks)

CallPumpOnly ==
  \E turnOn \in BOOLEAN :
    /\ clock <= MaxPumpTicks * Tick
    /\ Returns(setPump(Cur, turnOn), Call("setPump", "-", FALSE, turnOn))

CallWaterLeak ==
  /\ clock <= MaxPumpTicks * Tick
  /\ Returns(handleEmergency(Cur, "WATER_LEAK"),
             Call("handleEmergency", "WATER_LEAK", FALSE, FALSE))

NextPump ==
  \/ CallPumpOnly
  \/ CallWaterLeak
  \/ TickPump

SpecPump == Init /\ [][NextPump]_vars

\* ------------------------------------------------------------------------
\* The public interface of SensorManager driven at arbitrary times: init()
\* first, as in stateSensorInit(), then readAll() and init() in any order.
\* hs keeps the poll delivered to the last call and the sensor manager as
\* it was before the call.  The run starts either at power-up or late in a
\* long run in which every poll after the warm-up has failed.
\* ------------------------------------------------------------------------
\* every channel fails; every channel delivers a value in range; every
\* channel delivers a value out of range; the SCD-30 alone fails
SensorPolls ==
  {NoPoll,
   [scd |-> ScdOk(487, 25, 60), mq |-> MqOk(150),
    mb |-> MbOk(310, 210, 1600, 640), pir |-> FALSE],
   [scd |-> ScdOk(6000, 25, 60), mq |-> MqOk(5),
    mb |-> MbOk(310, 210, 1600, 1200), pir |-> FALSE],
   [scd |-> ScdFail, mq |-> MqOk(150),
    mb |-> MbOk(310, 210, 1600, 640), pir |-> FALSE]}

LongRunStart ==
  FailedPolls(sensorsInit(SensorsInitState, 0, TRUE), 2 * SensorTick,
              NearWrapPolls)

InitSensors ==
  /\ state = ActuatorInitState
  /\ pins = PinsOff
  /\ lastCall = NoCall
  /\ pre = Ctx(ActuatorInitState, PinsOff, 0)
  /\ ctl = CtlInitState
  /\ an = "NONE"
  /\ net = NetInit
  /\ em = NoEmergency
  /\ wd = WdInit
  /\ \/ /\ clock = 0
        /\ sm = SensorsInitState
        /\ hs = HsInit
     \/ /\ clock = 2 * SensorTick
        /\ sm = LongRunStart
        /\ hs = [HsInit EXCEPT !.inits = 1, !.smPre = LongRunStart]

SensorCall(m, call, poll) ==
  /\ sm' = m
  /\ lastCall' = call
  /\ hs' = [hs EXCEPT !.poll = poll, !.smPre = sm,
                      !.inits = IF call.op \in {"sensorsInit", "restart"}
                                THEN @ + 1 ELSE @,
                      !.reads = IF call.op = "readAll" THEN @ + 1 ELSE @,
                      !.cals = IF call.op = "calibrateZeroPoint"
                               THEN @ + 1 ELSE @,
                      !.saved = IF call.op = "calibrateFinish"
                                THEN <<m.adcCal>> ELSE @]
  /\ UNCHANGED <<state, pins, clock, pre, ctl, an, net, em, wd>>

CallSensorsInit ==
  \E scdBegin \in BOOLEAN :
    /\ hs.inits < MaxInits
    /\ SensorCall(sensorsInit(sm, clock, scdBegin),
                  Call("sensorsInit", "-", FALSE, scdBegin), NoPoll)

CallReadAll ==
  \E poll \in SensorPolls :
    /\ hs.inits >= 1
    /\ hs.reads < MaxReads
    /\ SensorCall(readAll(sm, clock, poll),
                  Call("readAll", "-", FALSE, FALSE), poll)

TickSensors ==
  /\ clock < MaxSensorTicks * SensorTick
  /\ clock' = clock + SensorTick
  /\ lastCall' = NoCall
  /\ UNCHANGED <<state, pins, pre, ctl, sm, an, net, em, wd, hs>>

NextSensors ==
  \/ CallSensorsInit
  \/ CallReadAll
  \/ TickSensors

SpecSensors == InitSensors /\ [][NextSensors]_vars

\* ------------------------------------------------------------------------
\* The calibration profile: power-ups, init() and the steps of
\* performADCCalibration(), for both builds and for the EEPROM contents a
\* device can start with
\* ------------------------------------------------------------------------
\* a stored profile with one changed field and one with a flipped checksum bit
EepromFieldChanged == [EepromCalibrated EXCEPT !.offset = @ + 1]
EepromCrcChanged == [EepromCalibrated EXCEPT !.crc32 = Xor32(@, {7})]

EepromContents ==
  {EepromErased, EepromCalibrated, EepromFieldChanged, EepromCrcChanged}

\* zero points and <<reference voltage, measurement>> pairs of the bench
ZeroInputs == {0, BenchZeroMv}
ReferenceInputs ==
  {<<BenchRefMv, BenchMeasuredMv>>, <<BenchRefMv, BenchRefMv + 50>>,
   <<1000, 1000>>}

InitCal ==
  /\ state = ActuatorInitState
  /\ pins = PinsOff
  /\ clock = 0
  /\ lastCall = NoCall
  /\ pre = Ctx(ActuatorInitState, PinsOff, 0)
  /\ ctl = CtlInitState
  /\ an = "NONE"
  /\ net = NetInit
  /\ em = NoEmergency
  /\ wd = WdInit
  /\ \E nvm \in BOOLEAN, e \in EepromContents :
        /\ nvm \/ e = EepromErased
        /\ sm = [SensorsInitState EXCEPT !.nvm = nvm, !.eeprom = e]
        /\ hs = [HsInit EXCEPT !.smPre = sm]

\* a restart (power cycle or watchdog reset) at any moment: the RAM starts
\* over, the EEPROM is kept, and the boot runs init()
CalRestart ==
  /\ hs.inits < MaxLoads
  /\ LET m0 == [SensorsInitState EXCEPT !.nvm = sm.nvm, !.eeprom = sm.eeprom]
     IN SensorCall(sensorsInit(m0, clock, TRUE),
                   Call("restart", "-", FALSE, TRUE), NoPoll)

\* init() called again by stateSensorInit() without a restart
CalSensorsInit ==
  /\ hs.inits >= 1
  /\ hs.inits < MaxLoads
  /\ sm.calStep = 0
  /\ SensorCall(sensorsInit(sm, clock, TRUE),
                Call("sensorsInit", "-", FALSE, TRUE), NoPoll)

CalZeroPoint ==
  \E zeroMv \in ZeroInputs :
    /\ hs.inits >= 1
    /\ sm.calStep = 0
    /\ hs.cals < MaxCalibrations
    /\ SensorCall(calibrateZeroPoint(sm, zeroMv),
                  Call("calibrateZeroPoint", "-", FALSE, FALSE), NoPoll)

CalReferencePoint ==
  \E r \in ReferenceInputs :
    /\ sm.calStep = 1
    /\ SensorCall(calibrateReferencePoint(sm, r[1], r[2]),
                  Call("calibrateReferencePoint", "-", FALSE, FALSE), NoPoll)

CalFinish ==
  /\ sm.calStep = 2
  /\ SensorCall(calibrateFinish(sm),
                Call("calibrateFinish", "-", FALSE, FALSE), NoPoll)

NextCal ==
  \/ CalRestart
  \/ CalSensorsInit
  \/ CalZeroPoint
  \/ CalReferencePoint
  \/ CalFinish

SpecCal == InitCal /\ [][NextCal]_vars

\* ------------------------------------------------------------------------
\* The offline buffer: a controller that stays offline hands one snapshot
\* after the other to bufferSensorData(); the periodic flush is attempted
\* in between.  The k-th snapshot carries the timestamp k
\* ------------------------------------------------------------------------
InitBuffer ==
  /\ Init
  /\ net.offlineBuffer = <<>>

CallBufferSensorData ==
  /\ Len(hs.inserted) < MaxInsertions
  /\ LET data == [sm.data EXCEPT !.timestamp = Len(hs.inserted) + 1] IN
       /\ net' = bufferSensorData(net, data)
       /\ hs' = [hs EXCEPT !.inserted = Append(@, SensorReading(data))]
  /\ lastCall' = Call("bufferSensorData", "-", FALSE, FALSE)
  /\ UNCHANGED <<state, pins, clock, pre, ctl, sm, an, em, wd>>

CallFlushSDBuffer ==
  \E opened \in BOOLEAN :
    /\ lastCall.op # "flushSDBuffer"
    /\ net' = flushSDBuffer(net, opened)
    /\ lastCall' = Call("flushSDBuffer", "-", FALSE, opened)
    /\ UNCHANGED <<state, pins, clock, pre, ctl, sm, an, em, wd, hs>>

NextBuffer ==
  \/ CallBufferSensorData
  \/ CallFlushSDBuffer

SpecBuffer == InitBuffer /\ [][NextBuffer]_vars

\* ------------------------------------------------------------------------
\* The running controller: setup() and then one action per loop() iteration
\* ------------------------------------------------------------------------
World ==
  [a |-> Cur, ctl |-> ctl, sm |-> sm, an |-> an, net |-> net, em |-> em,
   wd |-> [wd EXCEPT !.maxGap = 0], hs |-> hs]

OperatorWaits == {0, OperatorWaitMs}

\* the menu of stateCalibrationMode(), for the integers 0..3 read
CalibrationOptions == <<"other", "ADC", "MQ135", "exit">>

\* what the hardware can deliver at one poll of the controller
ScdInputs ==
  {ScdFail, ScdOk(487, 20, 50), ScdOk(487, 8, 50), ScdOk(487, 40, 50)}
MbInputs == {MbOk(300, 200, 1500, 650)}
Polls ==
  {[scd |-> x, mq |-> MqFail, mb |-> y, pir |-> FALSE] :
     x \in ScdInputs, y \in MbInputs}
LowAnomalies == {"NONE", "SENSOR_MALFUNCTION"}

\* the iteration that follows starts at the next sampling instant
NextSample(t) == ((t + LoopDelayMs + CtlStep - 1) \div CtlStep) * CtlStep

\* handleSerialCommands() for the command read, when it is not 'r'
handleSerialCommands(w, cmd, poll) ==
  CASE cmd = "c" -> [changeState(w, "STATE_CALIBRATION_MODE")
                       EXCEPT !.hs.commands = @ + 1]
    [] cmd = "s" -> [w EXCEPT !.sm = readAll(@, w.a.t, poll),
                              !.hs.commands = @ + 1]
    [] OTHER     -> w

\* the serial commands the operator may type at the end of this iteration
Commands == IF hs.commands < MaxCommands THEN {"none", "c"} ELSE {"none"}

\* NVIC_SystemReset(): the firmware restarts with every global
\* re-initialised and the relays released
SystemReset ==
  /\ state' = ActuatorInitState
  /\ pins' = PinsOff
  /\ clock' = 0
  /\ lastCall' = NoCall
  /\ pre' = Ctx(ActuatorInitState, PinsOff, 0)
  /\ ctl' = CtlInitState
  /\ sm' = [SensorsInitState EXCEPT !.eeprom = sm.eeprom]
  /\ an' = "NONE"
  /\ net' = [NetInit EXCEPT !.sdFile = net.sdFile]
  /\ em' = NoEmergency
  /\ wd' = WdInit
  /\ hs' = HsInit

\* The world r is the one left by the state handler and the serial command
\* handler.  After delay(10) the next loop() opens with feedWatchdog() and
\* checkWatchdog().  When the controller state has changed, that iteration
\* is the next step; otherwise the iterations up to the next sampling
\* instant repeat the handler with no timer newly elapsed and feed the
\* watchdog in turn.
NextIteration(r) ==
  IF r.ctl.currentState # ctl.currentState
  THEN r.a.t + LoopDelayMs
  ELSE NextSample(r.a.t)

EndOfLoop(r, call) ==
  LET late == delay(r, LoopDelayMs)
      e    == feedWatchdog(late)
  IN
  IF WatchdogExpired(e)
  THEN SystemReset
  ELSE /\ state' = e.a.s
       /\ pins' = e.a.p
       /\ clock' = NextIteration(r)
       /\ ctl' = e.ctl
       /\ sm' = e.sm
       /\ an' = e.an
       /\ net' = e.net
       /\ em' = e.em
       /\ wd' = [e.wd EXCEPT !.lastWatchdogFeed =
                              IF e.wd.watchdogEnabled THEN NextIteration(r) ELSE @]
       /\ hs' = e.hs
       /\ lastCall' = call
       /\ pre' = Cur

InState(st) == ctl.currentState = st /\ clock < MaxCtlSteps * CtlStep

Setup ==
  /\ ctl.currentState = "STATE_BOOT"
  /\ EndOfLoop(setup(World), Call("setup", "-", FALSE, FALSE))

LoopSensorInit ==
  \E scdBegin \in BOOLEAN, poll \in Polls, cmd \in Commands :
    /\ InState("STATE_SENSOR_INIT")
    /\ EndOfLoop(handleSerialCommands(stateSensorInit(World, scdBegin, poll), cmd, poll),
                 Call("stateSensorInit", "-", FALSE, FALSE))

LoopNetworkConnect ==
  \E connects \in BOOLEAN, cmd \in Commands :
    /\ InState("STATE_NETWORK_CONNECT")
    /\ EndOfLoop(handleSerialCommands(stateNetworkConnect(World, connects), cmd, CHOOSE x \in Polls : TRUE),
                 Call("stateNetworkConnect", "-", FALSE, FALSE))

LoopFirebaseAuth ==
  \E ready \in BOOLEAN, cmd \in Commands :
    /\ InState("STATE_FIREBASE_AUTH")
    /\ EndOfLoop(handleSerialCommands(stateFirebaseAuth(World, ready), cmd, CHOOSE x \in Polls : TRUE),
                 Call("stateFirebaseAuth", "-", FALSE, FALSE))

LoopNormalOperation ==
  \E poll \in Polls, low \in LowAnomalies, cmd \in Commands, pub \in BOOLEAN :
    /\ InState("STATE_NORMAL_OPERATION")
    /\ EndOfLoop(handleSerialCommands(stateNormalOperation(World, poll, low, pub), cmd, poll),
                 Call("stateNormalOperation", "-", FALSE, FALSE))

LoopSafeMode ==
  \E poll \in Polls, cmd \in Commands :
    /\ InState("STATE_SAFE_MODE")
    /\ EndOfLoop(handleSerialCommands(stateSafeMode(World, poll), cmd, poll),
                 Call("stateSafeMode", "-", FALSE, FALSE))

LoopEmergency ==
  \E cmd \in Commands :
    /\ InState("STATE_EMERGENCY")
    /\ EndOfLoop(handleSerialCommands(stateEmergency(World), cmd, CHOOSE x \in Polls : TRUE),
                 Call("stateEmergency", an, FALSE, FALSE))

\* stateCalibrationMode() for the option the operator types and the time
\* the operator lets the prompts of the chosen procedure wait
LoopCalibrationMode ==
  \E option \in 0..3, wait \in OperatorWaits :
    /\ InState("STATE_CALIBRATION_MODE")
    /\ option \in {0, 3} => wait = 0
    /\ EndOfLoop(stateCalibrationMode(World, option, wait),
                 Call("stateCalibrationMode", CalibrationOptions[option + 1], FALSE, FALSE))

\* the link comes and goes: WiFi.status() and Firebase.ready() are read from
\* the network stack; ready is gained only in stateFirebaseAuth()
LinkChange ==
  \E wifi \in BOOLEAN, keep \in BOOLEAN :
    /\ ctl.currentState # "STATE_BOOT"
    /\ net' = [net EXCEPT !.wifi = wifi, !.ready = net.ready /\ keep]
    /\ net' # net
    /\ hs.linkChanges < MaxLinkChanges
    /\ hs' = [hs EXCEPT !.linkChanges = @ + 1]
    /\ lastCall' = NoCall
    /\ UNCHANGED <<state, pins, clock, pre, ctl, sm, an, em, wd>>

\* serial command 'r', or a power cycle: NVIC_SystemReset() restarts the
\* firmware with every global re-initialised and the relays released
Restart ==
  /\ ctl.currentState # "STATE_BOOT"
  /\ SystemReset

Next ==
  \/ Setup
  \/ LoopSensorInit
  \/ LoopNetworkConnect
  \/ LoopFirebaseAuth
  \/ LoopNormalOperation
  \/ LoopSafeMode
  \/ LoopEmergency
  \/ LoopCalibrationMode
  \/ LinkChange
  \/ Restart

Spec == Init /\ [][Next]_vars

\* ------------------------------------------------------------------------
\* A long run of the controller left to itself in a cold greenhouse: the
\* SCD-30 answers 8 C or fails, the soil probe is absent, the network is
\* up.
\* ------------------------------------------------------------------------
ColdPolls ==
  {[scd |-> x, mq |-> MqFail, mb |-> MbFail, pir |-> FALSE] :
     x \in {ScdFail, ScdOk(487, 8, 50)}}

InStateUntil(st, steps) == ctl.currentState = st /\ clock < steps * CtlStep

ColdSensorInit ==
  \E poll \in ColdPolls :
    /\ InStateUntil("STATE_SENSOR_INIT", MaxColdSteps)
    /\ EndOfLoop(stateSensorInit(World, TRUE, poll),
                 Call("stateSensorInit", "-", FALSE, FALSE))

ColdNetworkConnect ==
  /\ InStateUntil("STATE_NETWORK_CONNECT", MaxColdSteps)
  /\ EndOfLoop(stateNetworkConnect(World, TRUE),
               Call("stateNetworkConnect", "-", FALSE, TRUE))

ColdFirebaseAuth ==
  /\ InStateUntil("STATE_FIREBASE_AUTH", MaxColdSteps)
  /\ EndOfLoop(stateFirebaseAuth(World, TRUE),
               Call("stateFirebaseAuth", "-", FALSE, TRUE))

ColdNormalOperation ==
  \E poll \in ColdPolls :
    /\ InStateUntil("STATE_NORMAL_OPERATION", MaxColdSteps)
    /\ EndOfLoop(stateNormalOperation(World, poll, "NONE", TRUE),
                 Call("stateNormalOperation", "-", FALSE, FALSE))

ColdSafeMode ==
  \E poll \in ColdPolls :
    /\ InStateUntil("STATE_SAFE_MODE", MaxColdSteps)
    /\ EndOfLoop(stateSafeMode(World, poll),
                 Call("stateSafeMode", "-", FALSE, FALSE))

ColdEmergency ==
  /\ InStateUntil("STATE_EMERGENCY", MaxColdSteps)
  /\ EndOfLoop(stateEmergency(World), Call("stateEmergency", an, FALSE, FALSE))

NextCold ==
  \/ Setup
  \/ ColdSensorInit
  \/ ColdNetworkConnect
  \/ ColdFirebaseAuth
  \/ ColdNormalOperation
  \/ ColdSafeMode
  \/ ColdEmergency

SpecCold == Init /\ [][NextCold]_vars

\* loop() is called again as soon as it returns: while the controller is in
\* SafeMode its handler keeps being run
SpecColdFair == SpecCold /\ WF_vars(ColdSafeMode)

\* ------------------------------------------------------------------------
\* The controller left to itself: no serial command, no manual restart.
\* Every loop() iteration returns, so loop() runs again: the handlers of
\* NetworkConnect and CloudAuth are taken whenever the controller is in
\* those states, whatever the time.
\* ------------------------------------------------------------------------
AutoSensorInit ==
  \E scdBegin \in BOOLEAN, poll \in Polls :
    /\ InState("STATE_SENSOR_INIT")
    /\ EndOfLoop(stateSensorInit(World, scdBegin, poll),
                 Call("stateSensorInit", "-", FALSE, FALSE))

AutoNetworkConnect ==
  \E connects \in BOOLEAN :
    /\ ctl.currentState = "STATE_NETWORK_CONNECT"
    /\ EndOfLoop(stateNetworkConnect(World, connects),
                 Call("stateNetworkConnect", "-", FALSE, connects))

AutoFirebaseAuth ==
  \E ready \in BOOLEAN :
    /\ ctl.currentState = "STATE_FIREBASE_AUTH"
    /\ EndOfLoop(stateFirebaseAuth(World, ready),
                 Call("stateFirebaseAuth", "-", FALSE, ready))

AutoNormalOperation ==
  \E poll \in Polls, low \in LowAnomalies, pub \in BOOLEAN :
    /\ InState("STATE_NORMAL_OPERATION")
    /\ EndOfLoop(stateNormalOperation(World, poll, low, pub),
                 Call("stateNormalOperation", "-", FALSE, FALSE))

AutoSafeMode ==
  \E poll \in Polls :
    /\ InState("STATE_SAFE_MODE")
    /\ EndOfLoop(stateSafeMode(World, poll),
                 Call("stateSafeMode", "-", FALSE, FALSE))

AutoEmergency ==
  /\ InState("STATE_EMERGENCY")
  /\ EndOfLoop(stateEmergency(World), Call("stateEmergency", an, FALSE, FALSE))

NextAuto ==
  \/ Setup
  \/ AutoSensorInit
  \/ AutoNetworkConnect
  \/ AutoFirebaseAuth
  \/ AutoNormalOperation
  \/ AutoSafeMode
  \/ AutoEmergency
  \/ LinkChange

SpecAuto ==
  /\ Init
  /\ [][NextAuto]_vars
  /\ WF_vars(AutoNetworkConnect)
  /\ WF_vars(AutoFirebaseAuth)

\* ------------------------------------------------------------------------
\* The controller with an SCD-30 that delivers arbitrary results: no
\* result, temperatures at the two ends of the accepted range, and
\* temperatures beyond it on either side of the limits of the sensor check
\* ------------------------------------------------------------------------
WildTemperatures == {-60, -10, 50, 55, 70}

WildPolls ==
  {[scd |-> x, mq |-> MqFail, mb |-> MbFail, pir |-> FALSE] :
     x \in {ScdFail} \cup {ScdOk(487, t, 50) : t \in WildTemperatures}}

WildSensorInit ==
  \E poll \in WildPolls, scdBegin \in BOOLEAN :
    /\ InStateUntil("STATE_SENSOR_INIT", MaxWildSteps)
    /\ EndOfLoop(stateSensorInit([World EXCEPT !.hs.poll = poll],
                                 scdBegin, poll),
                 Call("stateSensorInit", "-", FALSE, scdBegin))

WildNetworkConnect ==
  /\ InStateUntil("STATE_NETWORK_CONNECT", MaxWildSteps)
  /\ EndOfLoop(stateNetworkConnect(World, TRUE),
               Call("stateNetworkConnect", "-", FALSE, TRUE))

WildFirebaseAuth ==
  /\ InStateUntil("STATE_FIREBASE_AUTH", MaxWildSteps)
  /\ EndOfLoop(stateFirebaseAuth(World, TRUE),
               Call("stateFirebaseAuth", "-", FALSE, TRUE))

WildNormalOperation ==
  \E poll \in WildPolls :
    /\ InStateUntil("STATE_NORMAL_OPERATION", MaxWildSteps)
    /\ EndOfLoop(stateNormalOperation([World EXCEPT !.hs.poll = poll],
                                      poll, "NONE", TRUE),
                 Call("stateNormalOperation", "-", FALSE, FALSE))

WildSafeMode ==
  \E poll \in WildPolls :
    /\ InStateUntil("STATE_SAFE_MODE", MaxWildSteps)
    /\ EndOfLoop(stateSafeMode([World EXCEPT !.hs.poll = poll], poll),
                 Call("stateSafeMode", "-", FALSE, FALSE))

WildEmergency ==
  /\ InStateUntil("STATE_EMERGENCY", MaxWildSteps)
  /\ EndOfLoop(stateEmergency(World), Call("stateEmergency", an, FALSE, FALSE))

NextWild ==
  \/ Setup
  \/ WildSensorInit
  \/ WildNetworkConnect
  \/ WildFirebaseAuth
  \/ WildNormalOperation
  \/ WildSafeMode
  \/ WildEmergency

SpecWild == Init /\ [][NextWild]_vars

\* ------------------------------------------------------------------------
\* The controller with healthy sensors on an unreliable link, run long
\* enough for two cloud synchronisations
\* ------------------------------------------------------------------------
LinkPoll ==
  [scd |-> ScdOk(487, 20, 50), mq |-> MqFail,
   mb |-> MbOk(300, 200, 1500, 650), pir |-> FALSE]

LinkSensorInit ==
  /\ InStateUntil("STATE_SENSOR_INIT", MaxLinkSteps)
  /\ EndOfLoop(stateSensorInit(World, TRUE, LinkPoll),
               Call("stateSensorInit", "-", FALSE, FALSE))

LinkNetworkConnect ==
  \E connects \in BOOLEAN :
    /\ InStateUntil("STATE_NETWORK_CONNECT", MaxLinkSteps)
    /\ EndOfLoop(stateNetworkConnect(World, connects),
                 Call("stateNetworkConnect", "-", FALSE, connects))

LinkFirebaseAuth ==
  \E ready \in BOOLEAN :
    /\ InStateUntil("STATE_FIREBASE_AUTH", MaxLinkSteps)
    /\ EndOfLoop(stateFirebaseAuth(World, ready),
                 Call("stateFirebaseAuth", "-", FALSE, ready))

\* a reading above TEMP_MAX and a reading below HUMIDITY_MIN
LinkAnomalousPolls ==
  {[LinkPoll EXCEPT !.scd = ScdOk(487, 38, 50)],
   [LinkPoll EXCEPT !.scd = ScdOk(487, 20, 30)]}

LinkNormalOperation ==
  \E pub \in BOOLEAN :
    /\ InStateUntil("STATE_NORMAL_OPERATION", MaxLinkSteps)
    /\ EndOfLoop(stateNormalOperation(World, LinkPoll, "NONE", pub),
                 Call("stateNormalOperation", "-", FALSE, pub))

LinkAnomalousReading ==
  \E pub \in BOOLEAN, poll \in LinkAnomalousPolls :
    /\ InStateUntil("STATE_NORMAL_OPERATION", MaxLinkSteps)
    /\ hs.anomalies < MaxAnomalies
    /\ EndOfLoop(stateNormalOperation(
                   [World EXCEPT !.hs.anomalies = @ + 1], poll, "NONE", pub),
                 Call("stateNormalOperation", "-", FALSE, pub))

LinkEmergency ==
  /\ InStateUntil("STATE_EMERGENCY", MaxLinkSteps)
  /\ EndOfLoop(stateEmergency(World), Call("stateEmergency", an, FALSE, FALSE))

NextLink ==
  \/ Setup
  \/ LinkSensorInit
  \/ LinkNetworkConnect
  \/ LinkFirebaseAuth
  \/ LinkNormalOperation
  \/ LinkAnomalousReading
  \/ LinkEmergency
  \/ LinkChange

SpecLink == Init /\ [][NextLink]_vars

\* ------------------------------------------------------------------------
\* Properties of the actuator subsystem
\* ------------------------------------------------------------------------
HeaterOn(s) == s.heaterPrimary \/ s.heaterSecondary

IsCall(op, kind, sel, on) == lastCall = Call(op, kind, sel, on)

\* C1: at the return of every public call the exhaust fan is never on
\* together with the primary or the secondary heater.
C1_InterlockAtReturn ==
  lastCall.op # "none" => ~(state.fanExhaust /\ HeaterOn(state))

\* C2: setFan(exhaust, on) that passes the fan dwell check while a heater is
\* on returns with both heaters off and the exhaust fan on, whatever the time
\* since the heaters last changed.
C2_ExhaustOnForcesHeatersOff ==
  ( /\ IsCall("setFan", "-", TRUE, TRUE)
    /\ HeaterOn(pre.s)
    /\ Sub32(pre.t, pre.s.lastFanChange) >= MIN_CYCLE_TIME_MS )
  => ( /\ ~state.heaterPrimary
       /\ ~state.heaterSecondary
       /\ state.fanExhaust )

\* C4: handleEmergency(LOW_TEMP) returns with both heaters on, the exhaust
\* fan off and the circulation fan on, light and pump unchanged.
C4_LowTempBundle ==
  IsCall("handleEmergency", "LOW_TEMP", FALSE, FALSE)
  => ( /\ state.heaterPrimary
       /\ state.heaterSecondary
       /\ ~state.fanExhaust
       /\ state.fanCirculation
       /\ state.lightGrow = pre.s.lightGrow
       /\ state.pumpIrrigation = pre.s.pumpIrrigation )

\* C5: handleEmergency(HIGH_TEMP) returns with both heaters off, both fans
\* on and the grow light off, pump unchanged.
C5_HighTempBundle ==
  IsCall("handleEmergency", "HIGH_TEMP", FALSE, FALSE)
  => ( /\ ~state.heaterPrimary
       /\ ~state.heaterSecondary
       /\ state.fanExhaust
       /\ state.fanCirculation
       /\ ~state.lightGrow
       /\ state.pumpIrrigation = pre.s.pumpIrrigation )

\* C6: handleEmergency(POWER_FAILURE) returns with both heaters off, the
\* exhaust fan off, the circulation fan on and the light off, pump unchanged.
C6_PowerFailureBundle ==
  IsCall("handleEmergency", "POWER_FAILURE", FALSE, FALSE)
  => ( /\ ~state.heaterPrimary
       /\ ~state.heaterSecondary
       /\ ~state.fanExhaust
       /\ state.fanCirculation
       /\ ~state.lightGrow
       /\ state.pumpIrrigation = pre.s.pumpIrrigation )

\* C7: handleEmergency(WATER_LEAK) returns with the pump off and heaters,
\* fans and light unchanged.
C7_WaterLeakBundle ==
  IsCall("handleEmergency", "WATER_LEAK", FALSE, FALSE)
  => ( /\ ~state.pumpIrrigation
       /\ state.heaterPrimary = pre.s.heaterPrimary
       /\ state.heaterSecondary = pre.s.heaterSecondary
       /\ state.fanExhaust = pre.s.fanExhaust
       /\ state.fanCirculation = pre.s.fanCirculation
       /\ state.lightGrow = pre.s.lightGrow )

\* C8: stopAll() returns with every output off, whatever the prior state and
\* the time since the outputs last changed.
C8_StopAllEverythingOff ==
  IsCall("stopAll", "-", FALSE, FALSE)
  => ( /\ ~state.heaterPrimary
       /\ ~state.heaterSecondary
       /\ ~state.fanExhaust
       /\ ~state.fanCirculation
       /\ ~state.pumpIrrigation
       /\ ~state.lightGrow )

\* C9: in every reachable state the pump has not been on continuously for
\* longer than MAX_PUMP_RUN_TIME_MS.
C9_PumpRunTimeBounded ==
  state.pumpIrrigation => Sub32(clock, state.pumpOnTime) <= MAX_PUMP_RUN_TIME_MS

\* the pump was on for longer than the maximum when the call was made
PumpOverrunAtCall ==
  /\ IsCall("setPump", "-", FALSE, TRUE)
  /\ pre.s.pumpIrrigation
  /\ Sub32(pre.t, pre.s.pumpOnTime) > MAX_PUMP_RUN_TIME_MS

\* C10: a setPump(true) request made while the pump has been on continuously
\* for more than the maximum run time returns with the pump off.
C10_PumpOnRequestAfterOverrun ==
  PumpOverrunAtCall => ~state.pumpIrrigation

C10_Witness ==
  PumpOverrunAtCall /\ ~state.pumpIrrigation /\ ~pins.pumpIrrigation

Outputs ==
  {"heaterPrimary", "heaterSecondary", "fanExhaust", "fanCirculation",
   "pumpIrrigation", "lightGrow"}

\* C11: when an output changed in the call that just returned (entered at
\* pre.t) and changes again in the next call, that next call is made at
\* least one dwell interval after the first: no output changes twice within
\* one dwell interval.
C11_NoSecondTransitionWithinDwell ==
  [][\A o \in Outputs :
       (state[o] # pre.s[o] /\ state'[o] # state[o])
         => Sub32(clock, pre.t) >= MIN_CYCLE_TIME_MS]_vars

HeaterOnWhileExhaustOn ==
  /\ lastCall.op = "setHeater"
  /\ lastCall.on
  /\ pre.s.fanExhaust

\* C12: setHeater(h, on = true) called while the exhaust fan is on changes
\* no actuator state, no transition timestamp and no relay pin.
C12_HeaterOnRejectedWhileExhaustOn ==
  HeaterOnWhileExhaustOn => (state = pre.s /\ pins = pre.p)

\* the rejected request had passed the dwell check and asked for a heater
\* that was off: it is the interlock that rejected it
C12_Witness ==
  /\ HeaterOnWhileExhaustOn
  /\ Sub32(pre.t, pre.s.lastHeaterChange) >= MIN_CYCLE_TIME_MS
  /\ ~HeaterOn(pre.s)
  /\ state = pre.s

\* no stored timestamp is ahead of the clock (the differences do not wrap)
TimestampsNotAhead ==
  /\ state.lastHeaterChange <= clock
  /\ state.lastFanChange <= clock
  /\ state.lastPumpChange <= clock
  /\ state.pumpOnTime <= clock

\* ------------------------------------------------------------------------
\* Properties of the controller
\* ------------------------------------------------------------------------

\* C3: when the Emergency handler has run for a TEMP_TOO_LOW anomaly the
\* bundle it executed is the low-temperature one, and for TEMP_TOO_HIGH it
\* is the high-temperature one.
C3_EmergencyBundleMatchesAnomaly ==
  lastCall.op = "stateEmergency" =>
    /\ (em.anomaly = "TEMP_TOO_LOW" => em.bundle = "LOW_TEMP")
    /\ (em.anomaly = "TEMP_TOO_HIGH" => em.bundle = "HIGH_TEMP")

\* C13: the firmware is never found running past a loop iteration in which
\* more than the watchdog timeout elapsed without a heartbeat: such an
\* iteration ends in a restart (the controller back in its boot state).
C13_StallForcesRestart ==
  wd.maxGap > WDT_TIMEOUT_SECONDS * 1000 => ctl.currentState = "STATE_BOOT"

\* C14: every execution of the Emergency handler returns with the
\* controller state set to NormalOperation, and the loop iteration that ran
\* it does not leave the controller in Emergency.
C14_EmergencyReturnsToNormal ==
  lastCall.op = "stateEmergency" =>
    /\ em.next = "STATE_NORMAL_OPERATION"
    /\ ctl.currentState # "STATE_EMERGENCY"

\* the handler ran for a high-temperature anomaly with the cloud out of
\* reach, so that no alert could be sent
C14_Witness ==
  /\ lastCall.op = "stateEmergency"
  /\ em.anomaly = "TEMP_TOO_HIGH"
  /\ ~isConnected(World)
  /\ ctl.currentState = "STATE_NORMAL_OPERATION"

\* C15: stateNetworkConnect() leaves the controller in CloudAuth when WiFi
\* connects and in NormalOperation when the connection times out;
\* stateFirebaseAuth() leaves it in NormalOperation whether or not the
\* authentication succeeds; so from NetworkConnect and from CloudAuth the
\* controller always eventually reaches NormalOperation.
C15_NetworkFailsOpen ==
  /\ [](lastCall.op = "stateNetworkConnect" =>
          ctl.currentState = IF lastCall.on THEN "STATE_FIREBASE_AUTH"
                             ELSE "STATE_NORMAL_OPERATION")
  /\ [](lastCall.op = "stateFirebaseAuth" =>
          ctl.currentState = "STATE_NORMAL_OPERATION")
  /\ (ctl.currentState \in {"STATE_NETWORK_CONNECT", "STATE_FIREBASE_AUTH"}
        ~> ctl.currentState = "STATE_NORMAL_OPERATION")

\* NormalOperation entered offline, straight from the WiFi timeout
C15_Witness ==
  /\ lastCall = Call("stateNetworkConnect", "-", FALSE, FALSE)
  /\ ctl.currentState = "STATE_NORMAL_OPERATION"
  /\ ctl.previousState = "STATE_NETWORK_CONNECT"
  /\ ~net.wifi

\* C16: the first stateSafeMode() after every entry into SafeMode, the
\* first entry and every later one, begins with stopAll().
C16_StopAllOnEverySafeModeEntry ==
  hs.entries > 0 => hs.stopAllRan

\* a stay in SafeMode has just ended (the handler changed the state to
\* SensorInit) and the air temperature polled during the stay was below
\* TEMP_MIN: with the SCD-30 invalid the snapshot kept one value throughout
ColdSafeModeStayEnded ==
  /\ lastCall.op = "stateSafeMode"
  /\ ctl.currentState = "STATE_SENSOR_INIT"
  /\ ~sm.scd30Health.isValid
  /\ sm.data.airTemp < TEMP_MIN

\* C17: a stay in SafeMode during which the polled air temperature is below
\* TEMP_MIN does not end before the primary heater has been switched on,
\* and the heater is still on when the stay ends.
C17_SafeModeHeatsWhenCold ==
  ColdSafeModeStayEnded => (state.heaterPrimary /\ pins.heaterPrimary)

\* the controller has been in SafeMode for longer than SAFE_MODE_TIMEOUT
\* when the next loop() iteration starts
SafeModeOverdue ==
  /\ ctl.currentState = "STATE_SAFE_MODE"
  /\ clock - ctl.stateEntryTime > SAFE_MODE_TIMEOUT

\* a stay in SafeMode that began early enough to time out within the
\* modelled run
SafeModeStayInRun ==
  /\ ctl.currentState = "STATE_SAFE_MODE"
  /\ ctl.stateEntryTime + SAFE_MODE_TIMEOUT + 2 * CtlStep
       < MaxColdSteps * CtlStep

\* C18: once the controller has been in SafeMode for longer than
\* SAFE_MODE_TIMEOUT, the next SafeMode iteration changes the state to
\* SensorInit; a stay in SafeMode is therefore always eventually left for
\* SensorInit.
C18_SafeModeTimesOutToSensorInit ==
  /\ [][SafeModeOverdue => ctl'.currentState = "STATE_SENSOR_INIT"]_vars
  /\ (SafeModeStayInRun ~> ctl.currentState = "STATE_SENSOR_INIT")

C18_Witness ==
  /\ lastCall.op = "stateSafeMode"
  /\ ctl.previousState = "STATE_SAFE_MODE"
  /\ ctl.currentState = "STATE_SENSOR_INIT"

\* a SensorInit iteration has just run and left the SCD-30, the only source
\* of the air temperature, out of service: begin() failed, so no reading
\* was taken
SensorInitWithoutAirSensor ==
  /\ lastCall.op = "stateSensorInit"
  /\ ~sm.scd30Health.isValid

\* C19: a SensorInit iteration whose sensor check fails is a retry (the
\* controller stays in SensorInit, at most 3 times in a row) or the entry
\* into SafeMode; only a passing check moves the controller to
\* NetworkConnect.  The check is meant to fail when the air temperature
\* sensor does not work.
C19_FailedSensorCheckRetriesThenSafeMode ==
  SensorInitWithoutAirSensor =>
    /\ ctl.currentState \in {"STATE_SENSOR_INIT", "STATE_SAFE_MODE"}
    /\ ctl.bootFailCount >= 1
    /\ ctl.currentState = "STATE_SENSOR_INIT"
         => ctl.bootFailCount <= MaxBootFails

\* a CalibrationMode iteration has just completed one of the three menu
\* options: the ADC calibration, the MQ135 calibration or the exit
CalibrationOptionCompleted ==
  /\ lastCall.op = "stateCalibrationMode"
  /\ lastCall.kind \in {"ADC", "MQ135", "exit"}

\* C20: after a calibration procedure chosen in CalibrationMode has run to
\* completion, and likewise after the operator chose the exit option, the
\* controller state is NormalOperation.
C20_CalibrationEndsInNormalOperation ==
  CalibrationOptionCompleted => ctl.currentState = "STATE_NORMAL_OPERATION"

\* C20 (as the code behaves): a CalibrationMode iteration leaves the
\* controller in CalibrationMode, where the menu is shown again, unless the
\* operator chose the exit option; the exit option alone changes the state
\* to NormalOperation.
C20_OnlyExitLeavesCalibrationMode ==
  lastCall.op = "stateCalibrationMode" =>
    ctl.currentState = IF lastCall.kind = "exit"
                       THEN "STATE_NORMAL_OPERATION"
                       ELSE "STATE_CALIBRATION_MODE"

C20_Witness ==
  /\ lastCall.op = "stateCalibrationMode"
  /\ lastCall.kind \in {"ADC", "MQ135"}
  /\ ctl.currentState = "STATE_CALIBRATION_MODE"

\* C21: in a CalibrationMode iteration the heartbeat is signalled in every
\* wait state, so the longest time between two heartbeats of the iteration
\* stays within the watchdog timeout however long the operator takes.
C21_CalibrationKeepsHeartbeat ==
  lastCall.op = "stateCalibrationMode" =>
    wd.maxGap <= WDT_TIMEOUT_SECONDS * 1000

\* the three health records of SensorManager
Channels == {"scd30Health", "mq135Health", "modbusHealth"}

\* C22: a channel with more than MAX_SENSOR_ERRORS consecutive failed reads
\* has isValid false, and a further readAll(), whether its reads succeed or
\* fail, leaves isValid false; only init() ends this.
C22_InvalidUntilReinit ==
  lastCall.op = "readAll" =>
    \A ch \in Channels :
      \/ sm[ch].consecutiveErrors > MAX_SENSOR_ERRORS
      \/ /\ ~hs.smPre[ch].isValid
         /\ hs.smPre[ch].consecutiveErrors > MAX_SENSOR_ERRORS
      => ~sm[ch].isValid

\* the counters and the snapshot fields of each channel
Counters(m, ch) == <<m[ch].consecutiveErrors, m[ch].totalErrors>>
Fields(m, ch) ==
  CASE ch = "scd30Health"  -> <<m.data.co2, m.data.airTemp, m.data.airHumidity>>
    [] ch = "mq135Health"  -> <<m.data.airQualityPPM>>
    [] ch = "modbusHealth" -> <<m.data.vwc, m.data.substrateTemp, m.data.ec,
                                m.data.ph>>

\* C23: a readAll() that finds a channel's isValid flag false does not read
\* that channel: its consecutive and total error counters and its snapshot
\* fields are what they were before the call.
C23_InvalidChannelIsSkipped ==
  lastCall.op = "readAll" =>
    \A ch \in Channels :
      ~hs.smPre[ch].isValid =>
        /\ Counters(sm, ch) = Counters(hs.smPre, ch)
        /\ Fields(sm, ch) = Fields(hs.smPre, ch)

\* the last readAll() read the channel and the read failed: communication
\* failure or a value out of range
ReadFailed(ch) ==
  CASE ch = "scd30Health"  -> hs.smPre[ch].isValid /\ ~ScdAccepted(hs.poll.scd)
    [] ch = "mq135Health"  -> sm.mq135_preheated /\ ~MqAccepted(hs.poll.mq)
    [] ch = "modbusHealth" -> ~MbAccepted(hs.poll.mb)

\* C24: a failed channel read leaves every snapshot field of the channel
\* at the value it had (the last validated reading, or the initial default
\* when there has been none) and raises consecutiveErrors and totalErrors
\* by one each.
C24_FailedReadFallsBack ==
  lastCall.op = "readAll" =>
    \A ch \in Channels :
      ReadFailed(ch) =>
        /\ Fields(sm, ch) = Fields(hs.smPre, ch)
        /\ sm[ch].consecutiveErrors = hs.smPre[ch].consecutiveErrors + 1
        /\ sm[ch].totalErrors = hs.smPre[ch].totalErrors + 1

\* the last readAll() read the channel and the value passed validation
ReadSucceeded(ch) ==
  CASE ch = "scd30Health"  -> hs.smPre[ch].isValid /\ ScdAccepted(hs.poll.scd)
    [] ch = "mq135Health"  -> sm.mq135_preheated /\ MqAccepted(hs.poll.mq)
    [] ch = "modbusHealth" -> MbAccepted(hs.poll.mb)

\* C25: a successful validated read leaves the channel's consecutiveErrors
\* at 0 whatever it was before, and a readAll() takes consecutiveErrors
\* from a value other than 0 to 0 only through such a read.
C25_OnlySuccessResetsErrors ==
  lastCall.op = "readAll" =>
    \A ch \in Channels :
      /\ ReadSucceeded(ch) => sm[ch].consecutiveErrors = 0
      /\ (sm[ch].consecutiveErrors = 0 /\ hs.smPre[ch].consecutiveErrors # 0)
           => ReadSucceeded(ch)

\* the warm-up duration has not yet elapsed since the most recent init()
WarmingUp == Sub32(clock, sm.mq135_startTime) < MQ135_PREHEAT_TIME_MS

\* C26: while the warm-up duration has not elapsed since the most recent
\* init(), a readAll() changes neither the air-quality snapshot field nor
\* the MQ135 error counters, whatever the analog signal is.
C26_WarmUpGate ==
  (lastCall.op = "readAll" /\ WarmingUp) =>
    /\ Fields(sm, "mq135Health") = Fields(hs.smPre, "mq135Health")
    /\ Counters(sm, "mq135Health") = Counters(hs.smPre, "mq135Health")

\* the last call was a load of the calibration profile (init() at a boot or
\* called again)
ProfileLoaded == lastCall.op \in {"restart", "sensorsInit"}

\* the stored profile carries the checksum of its own fields
ChecksumMatches(m) ==
  m.nvm /\ m.eeprom.crc32 = calculateCRC32(ProfileBytes(m.eeprom))

\* the documented defaults: offset 0.0, scale 1.0, nominal reference
\* voltage, default temperature coefficient
HasDefaults(c) ==
  /\ c.offset = 0
  /\ c.scale = 1000
  /\ c.vRef = ADC_VREF_NOMINAL
  /\ c.tempCoeff = TEMP_COEFF_DEFAULT

\* C27: after a load, a stored profile whose checksum does not match leaves
\* the defaults active and a warning printed; when no warning was printed
\* the checksum matched and the active profile is the stored one.
C27_ChecksumMismatchGivesDefaults ==
  ProfileLoaded =>
    /\ ~ChecksumMatches(sm) => (HasDefaults(sm.adcCal) /\ sm.calWarning)
    /\ ~sm.calWarning => (ChecksumMatches(sm) /\ sm.adcCal = sm.eeprom)

\* a boot of the EEPROM build found a changed field under an old checksum
C27_Witness ==
  /\ lastCall.op = "restart"
  /\ sm.nvm
  /\ sm.eeprom = EepromFieldChanged
  /\ ~ChecksumMatches(sm)
  /\ HasDefaults(sm.adcCal)
  /\ sm.calWarning

\* C28: a load that follows a save of the calibration procedure reproduces
\* the saved offset, scale and reference voltage and passes the checksum
\* verification (no warning, the checksum of the active profile is that of
\* its fields).
C28_SavedProfileReloads ==
  (ProfileLoaded /\ hs.saved # <<>>) =>
    /\ sm.adcCal.offset = hs.saved[1].offset
    /\ sm.adcCal.scale = hs.saved[1].scale
    /\ sm.adcCal.vRef = hs.saved[1].vRef
    /\ ~sm.calWarning
    /\ sm.adcCal.crc32 = calculateCRC32(ProfileBytes(sm.adcCal))

\* the last call ended a calibration before its save step: a restart after
\* the zero-point step or after the reference-point step
CalibrationCutShort ==
  lastCall.op = "restart" /\ hs.smPre.calStep \in {1, 2}

\* C29: every call other than the end of performADCCalibration() leaves the
\* persisted profile as it was, in particular a restart after the zero-point
\* or the reference-point step; once a calibration has saved, the persisted
\* profile is the one of the last save and carries the checksum of its
\* fields.
C29_ProfileWrittenOnlyBySave ==
  /\ lastCall.op \in {"restart", "sensorsInit", "calibrateZeroPoint",
                       "calibrateReferencePoint"}
       => sm.eeprom = hs.smPre.eeprom
  /\ CalibrationCutShort =>
        /\ sm.eeprom = hs.smPre.eeprom
        /\ ChecksumMatches(hs.smPre) => ChecksumMatches(sm)
  /\ (sm.nvm /\ hs.saved # <<>>) =>
        (sm.eeprom = hs.saved[1] /\ ChecksumMatches(sm))

\* a second calibration was cut short by a restart after its reference-point
\* step, with values in RAM that differ from the persisted ones
C29_Witness ==
  /\ CalibrationCutShort
  /\ hs.smPre.calStep = 2
  /\ sm.nvm
  /\ hs.saved # <<>>
  /\ hs.smPre.adcCal.offset # sm.eeprom.offset
  /\ hs.smPre.adcCal.scale # sm.eeprom.scale
  /\ ChecksumMatches(sm)

\* the last n elements of a sequence (all of it when it is shorter)
LastOf(s, n) ==
  IF Len(s) <= n THEN s ELSE SubSeq(s, Len(s) - n + 1, Len(s))

\* C30: the offline buffer never holds more than MAX_BUFFERED_READINGS
\* records, and after any sequence of insertions it holds the most recent
\* MAX_BUFFERED_READINGS records handed to it, in insertion order.
C30_BufferKeepsMostRecent ==
  /\ Len(net.offlineBuffer) <= MAX_BUFFERED_READINGS
  /\ net.offlineBuffer = LastOf(hs.inserted, MAX_BUFFERED_READINGS)

\* an insertion into the full buffer has evicted the oldest record
C30_Witness ==
  /\ lastCall.op = "bufferSensorData"
  /\ Len(hs.inserted) = MAX_BUFFERED_READINGS + 1
  /\ Len(net.offlineBuffer) = MAX_BUFFERED_READINGS
  /\ net.offlineBuffer[1].timestamp = 2
  /\ net.offlineBuffer[MAX_BUFFERED_READINGS].timestamp
       = MAX_BUFFERED_READINGS + 1

\* the timestamps of the records in the offline buffer
Buffered == {net.offlineBuffer[i].timestamp : i \in DOMAIN net.offlineBuffer}

\* C31: every snapshot whose publication to the cloud failed is in the
\* offline buffer.
C31_FailedPublishIsBuffered == hs.failed \subseteq Buffered

\* the records held for later delivery, oldest first: the lines of the
\* buffer file, then the slots of the offline buffer
Held(n) == n.sdFile \o n.offlineBuffer

Undelivered(records, delivered) ==
  SelectSeq(records, LAMBDA r : r.timestamp \notin delivered)

IsPrefix(s, t) == Len(s) <= Len(t) /\ SubSeq(t, 1, Len(s)) = s

C33_BufferedRecordsDelivered ==
  (/\ lastCall.op = "stateNormalOperation"
   /\ ctl.currentState = "STATE_NORMAL_OPERATION"
   /\ ctl.previousState = "STATE_FIREBASE_AUTH"
   /\ isConnected(World)
   /\ sm.data.timestamp \in hs.delivered)
  => Buffered \subseteq hs.delivered

\* C34: a run of stateNormalOperation() that reaches the sensor health
\* check ends in SafeMode when the SCD-30 is invalid and more than 50 % of
\* all its reads were errors, and in NormalOperation otherwise.
C34_HealthCheckDecides ==
  [][(/\ lastCall'.op = "stateNormalOperation"
      /\ ctl'.lastHealthCheck > ctl.lastHealthCheck)
       => ctl'.currentState =
            IF /\ ~sm'.scd30Health.isValid
               /\ sm'.scd30Health.totalErrors * 100
                    > 50 * sm'.scd30Health.totalReads
            THEN "STATE_SAFE_MODE"
            ELSE ctl.currentState]_vars

\* a health check has just sent the controller to SafeMode
C34_Witness ==
  /\ lastCall.op = "stateNormalOperation"
  /\ ctl.currentState = "STATE_SAFE_MODE"
  /\ ctl.previousState = "STATE_NORMAL_OPERATION"
  /\ ~sm.scd30Health.isValid
  /\ RateAbove(sm.data.scd30ErrorRate, 50)

\* position of a step in the order read, evaluate, command, report
StepRank(step) ==
  CASE step = "read" -> 1
    [] step = "evaluate" -> 2
    [] step = "command" -> 3
    [] step \in {"alert", "publish"} -> 4

\* C35: the steps of one run of stateNormalOperation() or stateEmergency()
\* are taken in the order sensor read, anomaly evaluation, actuator
\* command, alert or publication.
C35_StepsInOrder ==
  lastCall.op \in {"stateNormalOperation", "stateEmergency"}
    => \A i, j \in DOMAIN hs.order :
         i < j => StepRank(hs.order[i]) <= StepRank(hs.order[j])

\* a cycle that read, evaluated, commanded, alerted and published
C35_Witness ==
  /\ lastCall.op = "stateNormalOperation"
  /\ hs.order = <<"read", "evaluate", "command", "alert", "publish">>

\* an Emergency cycle that ran its bundle and then sent the alert
C35_EmergencyWitness ==
  /\ lastCall.op = "stateEmergency"
  /\ hs.order = <<"command", "alert">>

\* the transitions of the controller state machine
ListedTransitions ==
  {<<"STATE_BOOT", "STATE_SENSOR_INIT">>,
   <<"STATE_SENSOR_INIT", "STATE_NETWORK_CONNECT">>,
   <<"STATE_SENSOR_INIT", "STATE_SAFE_MODE">>,
   <<"STATE_NETWORK_CONNECT", "STATE_FIREBASE_AUTH">>,
   <<"STATE_NETWORK_CONNECT", "STATE_NORMAL_OPERATION">>,
   <<"STATE_FIREBASE_AUTH", "STATE_NORMAL_OPERATION">>,
   <<"STATE_NORMAL_OPERATION", "STATE_EMERGENCY">>,
   <<"STATE_NORMAL_OPERATION", "STATE_SAFE_MODE">>,
   <<"STATE_NORMAL_OPERATION", "STATE_FIREBASE_AUTH">>,
   <<"STATE_EMERGENCY", "STATE_NORMAL_OPERATION">>,
   <<"STATE_SAFE_MODE", "STATE_SENSOR_INIT">>,
   <<"STATE_CALIBRATION_MODE", "STATE_NORMAL_OPERATION">>}

\* this step changes the controller state along a listed transition, or to
\* CalibrationMode with the operator's command 'c' handled in it
ListedChange ==
  \/ <<ctl.currentState, ctl'.currentState>> \in ListedTransitions
  \/ ctl'.currentState = "STATE_CALIBRATION_MODE" /\ hs'.commands > hs.commands

\* this step is a restart of the firmware
RestartStep == ctl' = CtlInitState /\ clock' = 0 /\ lastCall' = NoCall

\* C36 as stated: every change of the controller state is a listed
\* transition or the operator's command 'c'.
C36_ListedTransitionsOnly ==
  [][ctl'.currentState # ctl.currentState => ListedChange]_vars

\* C36: every change of the controller state is a listed transition, the
\* operator's command 'c', or a restart of the firmware, which takes any
\* state to Boot.
C36_ListedTransitionsOrRestart ==
  [][ctl'.currentState # ctl.currentState => ListedChange \/ RestartStep]_vars

\* SafeMode has been left by the operator's command 'c'
C36_Witness ==
  /\ ctl.previousState = "STATE_SAFE_MODE"
  /\ ctl.currentState = "STATE_CALIBRATION_MODE"
  /\ hs.commands > 0

C38_TrackedStateMatchesPins ==
  \A o \in Outputs : state[o] = pins[o]

C39_EmergencyWitness ==
  /\ clock < MIN_CYCLE_TIME_MS
  /\ lastCall.op = "handleEmergency"
  /\ lastCall.kind = "LOW_TEMP"

\* the run of stateNormalOperation() that has just returned made the sensor
\* health check
HealthCheckJustMade ==
  /\ lastCall.op = "stateNormalOperation"
  /\ ctl.lastHealthCheck > 0
  /\ clock - ctl.lastHealthCheck <= CtlStep

\* C40: a sensor health check made in NormalOperation while the SCD-30 is
\* marked invalid sends the controller to SafeMode, from where SensorInit
\* re-initialises the channel.
C40_InvalidChannelForcesSafeMode ==
  HealthCheckJustMade /\ ~sm.scd30Health.isValid
    => ctl.currentState = "STATE_SAFE_MODE"

\* while the SCD-30 stays invalid in NormalOperation its error count stands
\* still while its read count grows: the error rate can only fall
C40_ErrorRateOnlyFalls ==
  [][(/\ lastCall'.op = "stateNormalOperation"
      /\ ~sm.scd30Health.isValid
      /\ ~sm'.scd30Health.isValid)
       => /\ sm'.scd30Health.totalErrors = sm.scd30Health.totalErrors
          /\ sm'.scd30Health.totalReads >= sm.scd30Health.totalReads]_vars

========================================================================
